---- MODULE Spec2Model ----
(***************************************************************************)
(* Cluster consolidation of laroccathebrux/order-tracking.                 *)
(*                                                                         *)
(* src/lib/clusters.py: the Cluster entity, update_clusters (assignment of *)
(* trackings to clusters) and merge_orders (the fixed-point merge).        *)
(* src/lib/group_site_manager.py: the cost adapters and their dispatch     *)
(* (SpecCosts), the retrying calls and the archive (SpecSite), the lookup  *)
(* tasks of the usa adapter (SpecFanout), the browser sessions of the      *)
(* portal flows (SpecBrowser).  SpecAlias follows the container objects of *)
(* the clusters by identity, SpecRow the sheet rows of to_row / from_row.  *)
(* src/get_tracking_numbers.py: fill_expected_costs (SpecFill).            *)
(*                                                                         *)
(* Representation.  A Python str whose content is computed by the code     *)
(* (group, notes, the date strings) is a sequence of characters, so that   *)
(* strip(), += and the lexicographic max() are computed, not assumed.      *)
(* Identifiers that the code only stores and compares for equality (order  *)
(* IDs, tracking numbers, POs, email IDs, to_email) are TLA+ strings.      *)
(* Costs are exact integers (cents).  A Python set is a TLA+ set; where    *)
(* the code returns on the first element of a set iteration, every         *)
(* element the iteration can meet first is a possible outcome.             *)
(* A cluster is a record of its fields' values: containers are held by     *)
(* value, which agrees with the code as long as no two clusters of a list  *)
(* share a non-empty container object.                                     *)
(***************************************************************************)
EXTENDS Integers, Sequences, FiniteSets, TLC

VARIABLES
  all_clusters,      \* update_clusters: the list all_clusters (mutated in place)
  order_to_cluster,  \* update_clusters: the local map order ID -> index of its cluster
  tracking,          \* update_clusters: the loop variable (the tracking processed last)
  pc,                \* "idle" between calls, "update" inside update_clusters' loop
  n0,                \* len(all_clusters) when the running update_clusters call started
  steps,             \* number of trackings processed so far (bounded by MaxSteps)
  input,             \* merge_orders: the argument the call was made with
  clusters,          \* merge_orders: the local variable clusters
  prev_length,       \* merge_orders: the local variable prev_length
  passes,            \* merge_orders: run_merge_iteration passes completed
  mpc,               \* merge_orders: "loop" inside the while loop, "done" after the break
  heap,              \* the container objects (set, list) by identity, with their contents
  objects,           \* the Cluster objects built so far: per field, the container it refers to
  fetch_group,       \* get_new_tracking_pos_costs_maps: the argument group
  csv_rows,          \* the rows (responses) the group's source serves to this call
  row_index,         \* the number of rows the adapter's loop has taken
  tracking_infos,    \* the adapter's local ledger: tracking tuple -> (group, cost, date)
  po_to_cost_map,    \* the adapter's local map: purchase order -> cost
  cpc,               \* the call: "entries", "rows", then "returned" or "raised"
  archive,           \* ArchiveManager: the stored archives, sub-group -> (po_cost, trackings_info)
  site_op,           \* the call in progress or ended last: "fetch", "upload" ("none" at first)
  site_group,        \* its argument group
  attempt,           \* the number of rounds of its retry loop entered so far
  last_exc,          \* its local last_exc / last_ex: the exception caught last
  spc,               \* its position: "try", "archives", then "returned" or "raised"
  archive_index,     \* position of the loop over group_config['archives']
  trackings_info,    \* get_new_tracking_pos_costs_maps: local trackings_info
  po_cost,           \* get_new_tracking_pos_costs_maps: local po_cost
  site_result,       \* what the call returned, or the exception it raised
  event,             \* what the last step met upstream: the source asked and the outcome
  task_pc,           \* _get_usa_tracking_pos_prices: the position of each lookup task
  drivers,           \* the browser sessions created and not quit
  expected_costs,    \* ExpectedCosts: the table order ID -> expected cost
  sheet,             \* the sheet row at hand: its header, its cells, and the cluster it was exported from
  row_cluster        \* what from_row(header, row) returned or raised

vars == <<all_clusters, order_to_cluster, tracking, pc, n0, steps,
          input, clusters, prev_length, passes, mpc,
          heap, objects,
          fetch_group, csv_rows, row_index, tracking_infos, po_to_cost_map, cpc,
          archive, site_op, site_group, attempt, last_exc, spc, archive_index,
          trackings_info, po_cost, site_result, event, task_pc, drivers, expected_costs, sheet, row_cluster>>

updateVars == <<all_clusters, order_to_cluster, tracking, pc, n0, steps>>
mergeVars == <<input, clusters, prev_length, passes, mpc>>
aliasVars == <<heap, objects>>
costVars == <<fetch_group, csv_rows, row_index, tracking_infos, po_to_cost_map, cpc>>
siteVars == <<archive, site_op, site_group, attempt, last_exc, spc, archive_index,
              trackings_info, po_cost, site_result, event>>

\* the state outside a call of update_clusters / merge_orders
otherVars == <<aliasVars, costVars, siteVars, task_pc, drivers, expected_costs, sheet, row_cluster>>
\* the state outside the Cluster objects' containers
notAlias == <<updateVars, mergeVars, costVars, siteVars, task_pc, drivers, expected_costs, sheet, row_cluster>>
\* the state outside a call of get_new_tracking_pos_costs_maps
notCosts == <<updateVars, mergeVars, aliasVars, siteVars, task_pc, drivers, expected_costs, sheet, row_cluster>>
\* the state outside the GroupSiteManager's retrying calls
notSite == <<updateVars, mergeVars, aliasVars, costVars, task_pc, drivers, expected_costs, sheet, row_cluster>>
\* the state outside the tasks of _get_usa_tracking_pos_prices and its maps
notTasks == <<updateVars, mergeVars, aliasVars, siteVars, drivers, expected_costs, sheet, row_cluster>>

\* line 21-28: the default values of _initiate's container parameters, built
\* once when the function is defined; a container is named by the object that
\* built it (0: the function definition) and the parameter it was built for
DefaultContainers ==
  [ id \in { <<0, "purchase_orders">>, <<0, "email_ids">>,
              <<0, "non_reimbursed_trackings">>, <<0, "cancelled_items">> } |->
      IF id[2] = "cancelled_items" THEN <<>> ELSE {} ]

NoObjects == heap = DefaultContainers /\ objects = <<>>

\* no call of get_new_tracking_pos_costs_maps is in progress
NoCostCall ==
  /\ fetch_group = "nosuchgroup"
  /\ csv_rows = <<>>
  /\ row_index = 0
  /\ tracking_infos = <<>>
  /\ po_to_cost_map = <<>>
  /\ cpc = "off"

NoError == [kind |-> "none", attempt |-> 0]
NoEvent == [source |-> "none", outcome |-> "none"]
NoResult ==
  [kind |-> "none", trackings_info |-> <<>>, po_cost |-> <<>>, message |-> "", cause |-> NoError]

\* no call on the GroupSiteManager has been made, the archive is empty
NoSiteCall ==
  /\ archive = <<>>
  /\ site_op = "none"
  /\ site_group = "none"
  /\ attempt = 0
  /\ last_exc = NoError
  /\ spc = "idle"
  /\ archive_index = 0
  /\ trackings_info = <<>>
  /\ po_cost = <<>>
  /\ site_result = NoResult
  /\ event = NoEvent

\* no lookup task exists
NoTasks == task_pc = <<>>

\* no browser session is open
NoDrivers == drivers = 0

\* no ExpectedCosts object has been built
NoExpectedCosts == expected_costs = <<>>

\* no sheet row is at hand
NoSheetRow == sheet = [kind |-> "none", header |-> {}, row |-> <<>>, cluster |-> <<>>]

\* from_row has not been called
NoRowCluster == row_cluster = [kind |-> "none", cluster |-> <<>>]

OtherIdle == NoObjects /\ NoCostCall /\ NoSiteCall /\ NoTasks /\ NoDrivers /\ NoExpectedCosts /\ NoSheetRow /\ NoRowCluster

(***************************************************************************)
(* Bounds                                                                  *)
(***************************************************************************)
\* longest cluster list given to merge_orders
MaxClusters == 3
\* trackings processed by update_clusters over one behaviour
MaxSteps == 3

(***************************************************************************)
(* Strings                                                                 *)
(***************************************************************************)
\* str.strip(): leading and trailing whitespace removed
RECURSIVE lstrip(_)
lstrip(s) == IF s # <<>> /\ Head(s) = " " THEN lstrip(Tail(s)) ELSE s

RECURSIVE rstrip(_)
rstrip(s) == IF s # <<>> /\ s[Len(s)] = " " THEN rstrip(SubSeq(s, 1, Len(s) - 1)) ELSE s

strip(s) == rstrip(lstrip(s))

\* Python's order on the date strings (sequences of digits): lexicographic
RECURSIVE str_less(_, _)
str_less(a, b) ==
  IF b = <<>> THEN FALSE
  ELSE IF a = <<>> THEN TRUE
  ELSE IF Head(a) # Head(b) THEN Head(a) < Head(b)
  ELSE str_less(Tail(a), Tail(b))

\* max(a, b) on strings: the first argument unless the second is greater
str_max(a, b) == IF str_less(a, b) THEN b ELSE a

RECURSIVE SumSeq(_)
SumSeq(s) == IF s = <<>> THEN 0 ELSE Head(s) + SumSeq(Tail(s))

(***************************************************************************)
(* Cluster (src/lib/clusters.py)                                           *)
(***************************************************************************)
\* Cluster(group): __init__ passes ten positional arguments to _initiate, so
\* its tenth, the empty list, lands in to_email; notes, manual_override,
\* non_reimbursed_trackings, cancelled_items and last_delivery_date take
\* _initiate's defaults.
Cluster(group) ==
  [ orders                   |-> {},
    trackings                |-> {},
    group                    |-> group,
    expected_cost            |-> 0,
    tracked_cost             |-> 0,
    last_ship_date           |-> <<0>>,
    purchase_orders          |-> {},
    email_ids                |-> {},
    adjustment               |-> 0,
    to_email                 |-> "[]",
    notes                    |-> <<>>,
    manual_override          |-> FALSE,
    non_reimbursed_trackings |-> {},
    cancelled_items          |-> <<>>,
    last_delivery_date       |-> <<>> ]

\* line 74-75: the group label grows by ", " + other.group.strip() when the
\* stripped labels differ
merge_group(self, other) ==
  IF strip(self.group) # strip(other.group)
  THEN self.group \o <<",", " ">> \o strip(other.group)
  ELSE self.group

\* line 83-86
merge_notes(self, other) ==
  IF self.notes # <<>> /\ other.notes # <<>> THEN self.notes \o <<",", " ">> \o other.notes
  ELSE IF other.notes # <<>> THEN other.notes
  ELSE self.notes

\* (variant: the diagnostic is printed but the flag is left as it was)
merge_manual_override_kept(self, other) == self.manual_override

\* line 87-90: the flag is cleared when either side had it set
merge_manual_override(self, other) ==
  IF self.manual_override \/ other.manual_override THEN FALSE ELSE self.manual_override

\* (variant: the purchase orders and email IDs of other are not taken over)
merge_with_keys_kept(self, other) ==
  [ orders                   |-> self.orders \cup other.orders,
    trackings                |-> self.trackings \cup other.trackings,
    group                    |-> merge_group(self, other),
    expected_cost            |-> self.expected_cost + other.expected_cost,
    tracked_cost             |-> self.tracked_cost + other.tracked_cost,
    last_ship_date           |-> str_max(self.last_ship_date, other.last_ship_date),
    purchase_orders          |-> self.purchase_orders,
    email_ids                |-> self.email_ids,
    adjustment               |-> self.adjustment + other.adjustment,
    to_email                 |-> self.to_email,
    notes                    |-> merge_notes(self, other),
    manual_override          |-> merge_manual_override(self, other),
    non_reimbursed_trackings |-> self.non_reimbursed_trackings \cup other.non_reimbursed_trackings,
    cancelled_items          |-> self.cancelled_items \o other.cancelled_items,
    last_delivery_date       |-> str_max(self.last_delivery_date, other.last_delivery_date) ]

\* (variant: tracked_cost is assigned instead of added)
merge_with_cost_assigned(self, other) ==
  [ orders                   |-> self.orders \cup other.orders,
    trackings                |-> self.trackings \cup other.trackings,
    group                    |-> merge_group(self, other),
    expected_cost            |-> self.expected_cost + other.expected_cost,
    tracked_cost             |-> other.tracked_cost,
    last_ship_date           |-> str_max(self.last_ship_date, other.last_ship_date),
    purchase_orders          |-> self.purchase_orders \cup other.purchase_orders,
    email_ids                |-> self.email_ids \cup other.email_ids,
    adjustment               |-> self.adjustment + other.adjustment,
    to_email                 |-> self.to_email,
    notes                    |-> merge_notes(self, other),
    manual_override          |-> merge_manual_override(self, other),
    non_reimbursed_trackings |-> self.non_reimbursed_trackings \cup other.non_reimbursed_trackings,
    cancelled_items          |-> self.cancelled_items \o other.cancelled_items,
    last_delivery_date       |-> str_max(self.last_delivery_date, other.last_delivery_date) ]

\* self.merge_with(other): the value of self afterwards
merge_with(self, other) ==
  [ orders                   |-> self.orders \cup other.orders,
    trackings                |-> self.trackings \cup other.trackings,
    group                    |-> merge_group(self, other),
    expected_cost            |-> self.expected_cost + other.expected_cost,
    tracked_cost             |-> self.tracked_cost + other.tracked_cost,
    last_ship_date           |-> str_max(self.last_ship_date, other.last_ship_date),
    purchase_orders          |-> self.purchase_orders \cup other.purchase_orders,
    email_ids                |-> self.email_ids \cup other.email_ids,
    adjustment               |-> self.adjustment + other.adjustment,
    to_email                 |-> self.to_email,
    notes                    |-> merge_notes(self, other),
    manual_override          |-> merge_manual_override(self, other),
    non_reimbursed_trackings |-> self.non_reimbursed_trackings \cup other.non_reimbursed_trackings,
    cancelled_items          |-> self.cancelled_items \o other.cancelled_items,
    last_delivery_date       |-> str_max(self.last_delivery_date, other.last_delivery_date) ]

(***************************************************************************)
(* Merge engine                                                            *)
(* A cluster held in a lookup map is the index of that cluster in the      *)
(* pass's result list: merge_with mutates the representative in place.     *)
(***************************************************************************)
\* a dict after d[k] = v for every k in keys
dict_put(d, keys, v) == [k \in (DOMAIN d) \cup keys |-> IF k \in keys THEN v ELSE d[k]]

\* fill_email_po_group_maps(cluster, ...) for the cluster at index rep of result
fill_email_po_group_maps(cluster, rep, email_to_cluster, po_group_to_cluster) ==
  [ po_group_to_cluster |->
      dict_put(po_group_to_cluster, {<<po, cluster.group>> : po \in cluster.purchase_orders}, rep),
    email_to_cluster |-> dict_put(email_to_cluster, cluster.email_ids, rep) ]

\* (variant: only the purchase orders are looked up)
find_by_shared_attr_po_only(cluster, email_to_cluster, po_group_to_cluster) ==
  { po_group_to_cluster[<<po, cluster.group>>] :
      po \in { p \in cluster.purchase_orders :
                 <<p, cluster.group>> \in DOMAIN po_group_to_cluster } }

\* (variant: the emails are looked up before the purchase orders)
find_by_shared_attr_email_first(cluster, email_to_cluster, po_group_to_cluster) ==
  LET by_po == { po_group_to_cluster[<<po, cluster.group>>] :
                   po \in { p \in cluster.purchase_orders :
                              <<p, cluster.group>> \in DOMAIN po_group_to_cluster } }
      by_email == { email_to_cluster[e] : e \in cluster.email_ids \cap DOMAIN email_to_cluster }
  IN IF by_email # {} THEN by_email ELSE by_po

\* find_by_shared_attr: the representatives it can return ({} for None).  The
\* loops run over Python sets and return at the first key found in the map:
\* any matching purchase order may be met first; emails are looked at only
\* when no purchase order matches.
find_by_shared_attr(cluster, email_to_cluster, po_group_to_cluster) ==
  LET by_po == { po_group_to_cluster[<<po, cluster.group>>] :
                   po \in { p \in cluster.purchase_orders :
                              <<p, cluster.group>> \in DOMAIN po_group_to_cluster } }
      by_email == { email_to_cluster[e] : e \in cluster.email_ids \cap DOMAIN email_to_cluster }
  IN IF by_po # {} THEN by_po ELSE by_email

\* (variant: a cluster merged into its representative is appended to result too)
RECURSIVE run_merge_iteration_from_absorbed_kept(_, _, _, _, _)
run_merge_iteration_from_absorbed_kept(cs, i, result, email_to_cluster, po_group_to_cluster) ==
  IF i > Len(cs) THEN {result}
  ELSE
    LET cluster == cs[i]
        to_merge == find_by_shared_attr(cluster, email_to_cluster, po_group_to_cluster)
    IN IF to_merge # {}
       THEN UNION {
              LET merged == merge_with(result[rep], cluster)
                  maps == fill_email_po_group_maps(merged, rep, email_to_cluster,
                                                   po_group_to_cluster)
              IN run_merge_iteration_from_absorbed_kept(
                   cs, i + 1, Append([result EXCEPT ![rep] = merged], cluster),
                   maps.email_to_cluster, maps.po_group_to_cluster)
              : rep \in to_merge }
       ELSE
         LET maps == fill_email_po_group_maps(cluster, Len(result) + 1, email_to_cluster,
                                              po_group_to_cluster)
         IN run_merge_iteration_from_absorbed_kept(
              cs, i + 1, Append(result, cluster),
              maps.email_to_cluster, maps.po_group_to_cluster)

\* the for loop of run_merge_iteration from position i on: the lists it can return
RECURSIVE run_merge_iteration_from(_, _, _, _, _)
run_merge_iteration_from(cs, i, result, email_to_cluster, po_group_to_cluster) ==
  IF i > Len(cs) THEN {result}
  ELSE
    LET cluster == cs[i]
        to_merge == find_by_shared_attr(cluster, email_to_cluster, po_group_to_cluster)
    IN IF to_merge # {}
       THEN UNION {
              LET merged == merge_with(result[rep], cluster)
                  maps == fill_email_po_group_maps(merged, rep, email_to_cluster,
                                                   po_group_to_cluster)
              IN run_merge_iteration_from(cs, i + 1, [result EXCEPT ![rep] = merged],
                                          maps.email_to_cluster, maps.po_group_to_cluster)
              : rep \in to_merge }
       ELSE
         LET maps == fill_email_po_group_maps(cluster, Len(result) + 1, email_to_cluster,
                                              po_group_to_cluster)
         IN run_merge_iteration_from(cs, i + 1, Append(result, cluster),
                                     maps.email_to_cluster, maps.po_group_to_cluster)

\* run_merge_iteration(clusters): the lists one pass can return
run_merge_iteration(cs) == run_merge_iteration_from(cs, 1, <<>>, <<>>, <<>>)

\* (variant: a single pass, the loop ends whatever the pass did)
loop_exit_after_one_pass(cs, prev) == TRUE

\* line 138: the loop of merge_orders ends when the pass has not shortened the list
loop_exit(cs, prev) == Len(cs) = prev

\* merge_orders(clusters): the lists the call can return
RECURSIVE merge_orders(_)
merge_orders(cs) ==
  UNION { IF loop_exit(r, Len(cs)) THEN {r} ELSE merge_orders(r) : r \in run_merge_iteration(cs) }

(***************************************************************************)
(* Assignment: update_clusters                                             *)
(***************************************************************************)
\* find_cluster: the cluster of the first order ID of the tracking that the
\* map knows (0 for None)
RECURSIVE find_cluster(_, _)
find_cluster(order_to_cluster_, order_ids) ==
  IF order_ids = <<>> THEN 0
  ELSE IF Head(order_ids) \in DOMAIN order_to_cluster_ THEN order_to_cluster_[Head(order_ids)]
  ELSE find_cluster(order_to_cluster_, Tail(order_ids))

\* line 103: the map update_clusters starts from
initial_order_to_cluster(cs) == <<>>

set_of(seq) == { seq[k] : k \in DOMAIN seq }

\* line 117-118: the tracking brings an order ID or a tracking number the cluster lacks
adds_membership(cluster, t) ==
  \/ Cardinality(set_of(t.order_ids) \ cluster.orders) > 0
  \/ t.tracking_number \notin cluster.trackings

\* (variant: the orders of the cluster are replaced by the tracking's)
apply_tracking_orders_replaced(cluster, t) ==
  [ cluster EXCEPT
      !.manual_override    = IF adds_membership(cluster, t) THEN FALSE ELSE @,
      !.orders             = set_of(t.order_ids),
      !.trackings          = @ \cup {t.tracking_number},
      !.last_ship_date     = str_max(@, t.ship_date),
      !.last_delivery_date = str_max(@, t.delivery_date),
      !.to_email           = t.to_email ]

\* (variant: the dates are those of the tracking applied last)
apply_tracking_last_date(cluster, t) ==
  [ cluster EXCEPT
      !.manual_override    = IF adds_membership(cluster, t) THEN FALSE ELSE @,
      !.orders             = @ \cup set_of(t.order_ids),
      !.trackings          = @ \cup {t.tracking_number},
      !.last_ship_date     = t.ship_date,
      !.last_delivery_date = t.delivery_date,
      !.to_email           = t.to_email ]

\* line 114-126: the cluster after the tracking has been applied to it
apply_tracking(cluster, t) ==
  [ cluster EXCEPT
      !.manual_override    = IF adds_membership(cluster, t) THEN FALSE ELSE @,
      !.orders             = @ \cup set_of(t.order_ids),
      !.trackings          = @ \cup {t.tracking_number},
      !.last_ship_date     = str_max(@, t.ship_date),
      !.last_delivery_date = str_max(@, t.delivery_date),
      !.to_email           = t.to_email ]

\* line 105-108: the list after the lookup, with a new cluster appended on a miss
with_cluster_for(cs, order_to_cluster_, t) ==
  IF find_cluster(order_to_cluster_, t.order_ids) = 0 THEN Append(cs, Cluster(t.group)) ELSE cs

\* line 105-108: the index in that list of the cluster the tracking goes to
cluster_index_for(cs, order_to_cluster_, t) ==
  IF find_cluster(order_to_cluster_, t.order_ids) = 0 THEN Len(cs) + 1
  ELSE find_cluster(order_to_cluster_, t.order_ids)

(***************************************************************************)
(* Inputs                                                                  *)
(***************************************************************************)
OrderIds == <<"O1", "O2", "O3", "O4", "O5">>
TrackingNumbers == <<"T1", "T2", "T3", "T4", "T5">>
Groups == { <<"g">>, <<"h">> }
PurchaseOrders == {"P1", "P2"}
EmailIds == {"E1"}

NoTracking == [tracking_number |-> "none"]

\* the Tracking records update_clusters is given: two tracking numbers, each
\* with its group, dates and recipient, on one or two order IDs in either order
TrackingRest ==
  { [tracking_number |-> "T1", group |-> <<"g">>, ship_date |-> <<1>>,
     delivery_date |-> <<2>>, to_email |-> "a@x"],
    [tracking_number |-> "T2", group |-> <<"h">>, ship_date |-> <<2>>,
     delivery_date |-> <<1>>, to_email |-> "b@x"] }

Trackings ==
  { [ tracking_number |-> r.tracking_number, order_ids |-> o, group |-> r.group,
      ship_date |-> r.ship_date, delivery_date |-> r.delivery_date, to_email |-> r.to_email ] :
    o \in { <<"O1">>, <<"O2">>, <<"O1", "O2">>, <<"O2", "O1">> },
    r \in TrackingRest }

\* the i-th cluster of a stored list: its own order and tracking, the merge
\* keys, group and flag as chosen, and the other fields set from i
StoredCluster(i, p) ==
  [ Cluster(p.group) EXCEPT
      !.orders          = {OrderIds[i]},
      !.trackings       = {TrackingNumbers[i]},
      !.purchase_orders = p.purchase_orders,
      !.email_ids       = p.email_ids,
      !.manual_override = p.manual_override,
      !.expected_cost   = i,
      !.tracked_cost    = 2 * i,
      !.adjustment      = i - 2,
      !.last_ship_date  = <<i>>,
      !.last_delivery_date = IF i = 1 THEN <<>> ELSE <<3 - i>>,
      !.to_email        = "a@x",
      !.notes           = IF i = 2 THEN <<>> ELSE <<"n">>,
      !.cancelled_items = IF i = 1 THEN <<"item">> ELSE <<>> ]

\* a stored list: n clusters, the i-th built from choice[i]
StoredList(n, choice) == [i \in 1..n |-> StoredCluster(i, choice[i])]

\* the lists merge_orders is called with: up to MaxClusters clusters
\* (every group and key set; the flag may be set on the clusters of group "g"
\* whose purchase orders are within {"P1"})
MergeParams ==
  { p \in [ group : Groups, purchase_orders : SUBSET PurchaseOrders,
            email_ids : SUBSET EmailIds, manual_override : BOOLEAN ] :
      p.manual_override => (p.group = <<"g">> /\ p.purchase_orders \subseteq {"P1"}) }

IsInputList(cs) ==
  \E n \in 0..MaxClusters : \E choice \in [1..n -> MergeParams] : cs = StoredList(n, choice)

\* the lists update_clusters starts from (what the cluster store holds): up
\* to two clusters
ExistingParams ==
  [ group : {<<"g">>}, purchase_orders : {{}, {"P1"}}, email_ids : {{}},
    manual_override : BOOLEAN ]

IsExistingList(cs) ==
  \E n \in 0..2 : \E choice \in [1..n -> ExistingParams] : cs = StoredList(n, choice)

(***************************************************************************)
(* Spec: update_clusters and merge_orders calls on the list all_clusters   *)
(***************************************************************************)
Init ==
  /\ IsExistingList(all_clusters)
  /\ order_to_cluster = <<>>
  /\ tracking = NoTracking
  /\ pc = "idle"
  /\ n0 = 0
  /\ steps = 0
  /\ input = <<>>
  /\ clusters = <<>>
  /\ prev_length = 0
  /\ passes = 0
  /\ mpc = "off"
  /\ OtherIdle

\* update_clusters(all_clusters, trackings) is entered (line 102-103)
UpdateClustersCall ==
  /\ pc = "idle"
  /\ pc' = "update"
  /\ order_to_cluster' = initial_order_to_cluster(all_clusters)
  /\ n0' = Len(all_clusters)
  /\ tracking' = NoTracking
  /\ UNCHANGED <<all_clusters, steps>>
  /\ UNCHANGED mergeVars
  /\ UNCHANGED otherVars

\* one round of the loop over trackings (line 104-129)
UpdateClustersStep(t) ==
  /\ pc = "update"
  /\ steps < MaxSteps
  /\ LET cs == with_cluster_for(all_clusters, order_to_cluster, t)
         idx == cluster_index_for(all_clusters, order_to_cluster, t)
     IN /\ order_to_cluster' = dict_put(order_to_cluster, set_of(t.order_ids), idx)
        /\ all_clusters' = [cs EXCEPT ![idx] = apply_tracking(cs[idx], t)]
  /\ tracking' = t
  /\ steps' = steps + 1
  /\ UNCHANGED <<pc, n0>>
  /\ UNCHANGED mergeVars
  /\ UNCHANGED otherVars

\* the loop is over and update_clusters returns
UpdateClustersReturn ==
  /\ pc = "update"
  /\ pc' = "idle"
  /\ order_to_cluster' = <<>>
  /\ tracking' = NoTracking
  /\ n0' = 0
  /\ UNCHANGED <<all_clusters, steps>>
  /\ UNCHANGED mergeVars
  /\ UNCHANGED otherVars

\* all_clusters = merge_orders(all_clusters)
MergeOrdersCall ==
  /\ pc = "idle"
  /\ \E r \in merge_orders(all_clusters) : all_clusters' = r
  /\ UNCHANGED <<order_to_cluster, tracking, pc, n0, steps>>
  /\ UNCHANGED mergeVars
  /\ UNCHANGED otherVars

Next ==
  \/ UpdateClustersCall
  \/ \E t \in Trackings : UpdateClustersStep(t)
  \/ UpdateClustersReturn
  \/ MergeOrdersCall

Spec == Init /\ [][Next]_vars

(***************************************************************************)
(* SpecMerge: one merge_orders call, pass by pass, on every input list     *)
(***************************************************************************)
InitMerge ==
  /\ IsInputList(input)
  /\ clusters = input
  /\ prev_length = 0
  /\ passes = 0
  /\ mpc = "loop"
  /\ all_clusters = <<>>
  /\ order_to_cluster = <<>>
  /\ tracking = NoTracking
  /\ pc = "idle"
  /\ n0 = 0
  /\ steps = 0
  /\ OtherIdle

\* one round of the while loop (line 136-139)
MergePass ==
  /\ mpc = "loop"
  /\ prev_length' = Len(clusters)
  /\ \E r \in run_merge_iteration(clusters) :
       /\ clusters' = r
       /\ mpc' = IF loop_exit(r, Len(clusters)) THEN "done" ELSE "loop"
  /\ passes' = passes + 1
  /\ UNCHANGED input
  /\ UNCHANGED updateVars
  /\ UNCHANGED otherVars

NextMerge == MergePass

SpecMerge == InitMerge /\ [][NextMerge]_vars

(***************************************************************************)
(* SpecAlias: Cluster objects and the container objects their fields refer *)
(* to (clusters.py, Cluster.__init__, _initiate, from_row, merge_with)     *)
(***************************************************************************)
MaxObjects == 3
MaxItems == 2

\* no update_clusters / merge_orders call is in progress and the list is empty
ClustersIdle ==
  /\ all_clusters = <<>>
  /\ order_to_cluster = <<>>
  /\ tracking = NoTracking
  /\ pc = "idle"
  /\ n0 = 0
  /\ steps = 0
  /\ input = <<>>
  /\ clusters = <<>>
  /\ prev_length = 0
  /\ passes = 0
  /\ mpc = "off"

SetFields == {"orders", "trackings", "purchase_orders", "email_ids", "non_reimbursed_trackings"}
ContainerFields == SetFields \cup {"cancelled_items"}

\* the containers object k builds itself for the given fields, with their contents
fresh_containers(k, contents) ==
  [ id \in { <<k, f>> : f \in DOMAIN contents } |-> contents[id[2]] ]

\* line 12-13, 29-44: Cluster(group) passes set(), set(), ..., set(), set(),
\* 0.0, [] by position: orders, trackings, purchase_orders and email_ids are
\* new sets, the list lands in to_email, and non_reimbursed_trackings and
\* cancelled_items are bound to the defaults of _initiate
cluster_refs(k) ==
  [ orders |-> <<k, "orders">>, trackings |-> <<k, "trackings">>,
    purchase_orders |-> <<k, "purchase_orders">>, email_ids |-> <<k, "email_ids">>,
    non_reimbursed_trackings |-> <<0, "non_reimbursed_trackings">>,
    cancelled_items |-> <<0, "cancelled_items">> ]

cluster_containers(k) ==
  fresh_containers(k, [ orders |-> {}, trackings |-> {}, purchase_orders |-> {},
                        email_ids |-> {} ])

\* line 177-217: from_row builds every container from the row and passes all
\* of them to _initiate
from_row_refs(k) == [ f \in ContainerFields |-> <<k, f>> ]

\* the parsed container fields of the sheet rows from_row is given
Rows ==
  [ orders : {{"x"}}, trackings : {{"x"}}, purchase_orders : {{}}, email_ids : {{}},
    non_reimbursed_trackings : {{}, {"x"}}, cancelled_items : {<<>>, <<"x">>} ]

\* set.update / list.extend of container dst with the contents of container src
container_update(h, dst, src) ==
  [ h EXCEPT ![dst] = IF dst[2] = "cancelled_items" THEN @ \o h[src] ELSE @ \cup h[src] ]

\* line 72-73, 80-81, 91-92: the container updates of self.merge_with(other), in order
merge_with_containers(h, self, other) ==
  LET h1 == container_update(h, self.orders, other.orders)
      h2 == container_update(h1, self.trackings, other.trackings)
      h3 == container_update(h2, self.purchase_orders, other.purchase_orders)
      h4 == container_update(h3, self.email_ids, other.email_ids)
      h5 == container_update(h4, self.non_reimbursed_trackings, other.non_reimbursed_trackings)
  IN container_update(h5, self.cancelled_items, other.cancelled_items)

InitAlias ==
  /\ NoObjects
  /\ ClustersIdle
  /\ NoCostCall
  /\ NoSiteCall
  /\ NoTasks
  /\ NoRowCluster
  /\ NoSheetRow
  /\ NoExpectedCosts
  /\ NoDrivers

\* Cluster(group)
NewCluster ==
  /\ Len(objects) < MaxObjects
  /\ objects' = Append(objects, cluster_refs(Len(objects) + 1))
  /\ heap' = heap @@ cluster_containers(Len(objects) + 1)
  /\ UNCHANGED notAlias

\* from_row(header, row)
FromRow(row) ==
  /\ Len(objects) < MaxObjects
  /\ objects' = Append(objects, from_row_refs(Len(objects) + 1))
  /\ heap' = heap @@ fresh_containers(Len(objects) + 1, row)
  /\ UNCHANGED notAlias

\* line 122-123: cluster.orders.update(...), cluster.trackings.add(...)
ContainerAdd(c, f, x) ==
  /\ heap' = [heap EXCEPT ![objects[c][f]] = @ \cup {x}]
  /\ UNCHANGED objects
  /\ UNCHANGED notAlias

\* objects[a].merge_with(objects[b])
MergeWith(a, b) ==
  /\ a # b
  /\ Len(heap[objects[a].cancelled_items]) + Len(heap[objects[b].cancelled_items]) <= MaxItems
  /\ heap' = merge_with_containers(heap, objects[a], objects[b])
  /\ UNCHANGED objects
  /\ UNCHANGED notAlias

NextAlias ==
  \/ NewCluster
  \/ \E row \in Rows : FromRow(row)
  \/ \E c \in DOMAIN objects : \E f \in {"orders", "trackings"} : ContainerAdd(c, f, "y")
  \/ \E a, b \in DOMAIN objects : MergeWith(a, b)

SpecAlias == InitAlias /\ [][NextAlias]_vars

(***************************************************************************)
(* SpecCosts: one call of get_new_tracking_pos_costs_maps(group), the      *)
(* adapter it dispatches to taken row by row (group_site_manager.py).      *)
(*                                                                         *)
(* A cost field of a row or response is its text, a sequence of digits     *)
(* (the empty sequence is the empty string), and float() is computed from  *)
(* it.  Tracking numbers are taken as already cleaned, each row naming one *)
(* tracking number.  A ledger maps the tuple of tracking numbers to the    *)
(* (group, cost, date) it records; the archives of a portal group are the  *)
(* subject of SpecFetch.                                                   *)
(***************************************************************************)
MaxRows == 2

\* float(text) for a text of digits; float('') raises ValueError
RECURSIVE float(_)
float(text) ==
  IF text = <<>> THEN 0 ELSE 10 * float(SubSeq(text, 1, Len(text) - 1)) + text[Len(text)]

\* config['melulPortals'] and os.listdir(RECON_CSV_FOLDER)
melul_portal_groups == {"mysbuyinggroup"}
recon_csv_folders == {"localcsv"}

\* the group names get_new_tracking_pos_costs_maps is called with
GroupNames ==
  {"bfmr", "mysbuyinggroup", "usa", "yrcw", "oaks", "gibstrat", "embdeals",
   "localcsv", "nosuchgroup"}

\* line 196-232: the branch of the dispatch chain taken for a group
adapter_for(g) ==
  IF g = "bfmr" THEN "bfmr"
  ELSE IF g \in melul_portal_groups THEN "melul"
  ELSE IF g = "usa" THEN "usa"
  ELSE IF g = "yrcw" THEN "yrcw"
  ELSE IF g = "oaks" THEN "oaks"
  ELSE IF g = "dtmd" \/ g = "gibstrat" THEN "gibstrat"
  ELSE IF g = "embdeals" THEN "embdeals"
  ELSE IF g \in recon_csv_folders THEN "csv"
  ELSE "none"

\* the rows (CSV rows, table rows, API entries with their responses) a source
\* can serve; only the portal CSV has a void column, and only it and the
\* embdeals CSV have a verified column
CostTexts == { <<>>, <<0>>, <<3>>, <<5>> }
RowsOf(g) ==
  [ tracking : {"T1", "T2"}, total : CostTexts, po : {"P1"}, date : {"d1"},
    amount : {<<7>>},
    void : IF adapter_for(g) = "melul" THEN BOOLEAN ELSE {FALSE},
    verified : IF adapter_for(g) \in {"melul", "embdeals"} THEN BOOLEAN ELSE {TRUE} ]

previous_cost(infos, key) == IF key \in DOMAIN infos THEN infos[key].cost ELSE 0

\* infos[key] = (group, previous + cost, date)
ledger_add(infos, key, g, cost, date) ==
  [ k \in DOMAIN infos \cup {key} |->
      IF k = key THEN [group |-> g, cost |-> previous_cost(infos, key) + cost, date |-> date]
      ELSE infos[k] ]

\* infos[key] = (group, cost, date)
ledger_set(infos, key, g, cost, date) ==
  [ k \in DOMAIN infos \cup {key} |->
      IF k = key THEN [group |-> g, cost |-> cost, date |-> date] ELSE infos[k] ]

\* po_map[po] = po_map.get(po, 0.0) + cost
po_add(po_map, po, cost) ==
  [ k \in DOMAIN po_map \cup {po} |->
      IF k = po THEN (IF po \in DOMAIN po_map THEN po_map[po] ELSE 0) + cost ELSE po_map[k] ]

\* po_map[po] = cost
po_set(po_map, po, cost) ==
  [ k \in DOMAIN po_map \cup {po} |-> IF k = po THEN cost ELSE po_map[k] ]

\* variant: the flags are ignored
melul_new_cost_flags_ignored(row) == float(row.total)

\* line 430: new_cost = float(cost) if (verified and not void) else 0.0
melul_new_cost(row) == IF row.verified /\ ~row.void THEN float(row.total) ELSE 0

IsRowList(rows, g) ==
  \E n \in 0..(IF adapter_for(g) = "none" THEN 0 ELSE MaxRows) : rows \in [1..n -> RowsOf(g)]

InitCosts ==
  /\ fetch_group \in GroupNames
  /\ IsRowList(csv_rows, fetch_group)
  /\ row_index = 0
  /\ tracking_infos = <<>>
  /\ po_to_cost_map = <<>>
  /\ cpc = IF adapter_for(fetch_group) = "usa" THEN "entries" ELSE "rows"
  /\ ClustersIdle
  /\ NoObjects
  /\ NoSiteCall
  /\ NoTasks
  /\ NoRowCluster
  /\ NoSheetRow
  /\ NoExpectedCosts
  /\ NoDrivers

\* the row the adapter's loop takes next
next_row == csv_rows[row_index + 1]

\* the adapter of the call is a and its loop has a row to take
AtRow(a) == cpc = "rows" /\ adapter_for(fetch_group) = a /\ row_index < Len(csv_rows)

\* line 416-434: one round of the loop of _melul_get_tracking_pos_costs_maps
MelulRow ==
  /\ AtRow("melul")
  /\ IF next_row.total = <<>>
     THEN cpc' = "raised" /\ UNCHANGED <<row_index, tracking_infos, po_to_cost_map>>
     ELSE /\ tracking_infos' =
               IF float(next_row.total) # 0
               THEN ledger_add(tracking_infos, <<next_row.tracking>>, fetch_group,
                               melul_new_cost(next_row), next_row.date)
               ELSE tracking_infos
          /\ po_to_cost_map' =
               IF float(next_row.total) # 0 /\ next_row.po # ""
               THEN po_add(po_to_cost_map, next_row.po, float(next_row.total))
               ELSE po_to_cost_map
          /\ row_index' = row_index + 1
          /\ UNCHANGED cpc
  /\ UNCHANGED <<fetch_group, csv_rows>>
  /\ UNCHANGED notCosts

\* line 244-249: one round of the loop of _get_emb_tracking_pos_prices
EmbRow ==
  /\ AtRow("embdeals")
  /\ tracking_infos' =
       ledger_add(tracking_infos, <<next_row.tracking>>, "embdeals",
                  IF next_row.total # <<>> /\ next_row.verified THEN float(next_row.total) ELSE 0,
                  "")
  /\ row_index' = row_index + 1
  /\ UNCHANGED <<fetch_group, csv_rows, po_to_cost_map, cpc>>
  /\ UNCHANGED notCosts

\* line 269-279: one table row of _get_oaks_tracking_pos_prices
OaksRow ==
  /\ AtRow("oaks")
  /\ tracking_infos' =
       ledger_add(tracking_infos, <<next_row.tracking>>, "oaks",
                  IF next_row.total # <<>> THEN float(next_row.total) ELSE 0, "")
  /\ row_index' = row_index + 1
  /\ UNCHANGED <<fetch_group, csv_rows, po_to_cost_map, cpc>>
  /\ UNCHANGED notCosts

\* line 303-311: one round of the loop of _get_yrcw_tracking_pos_prices
YrcwRow ==
  /\ AtRow("yrcw")
  /\ IF next_row.total = <<>>
     THEN UNCHANGED <<tracking_infos, po_to_cost_map>>
     ELSE /\ tracking_infos' = ledger_add(tracking_infos, <<next_row.tracking>>, "yrcw",
                                          float(next_row.total), "")
          /\ po_to_cost_map' = po_add(po_to_cost_map, next_row.tracking, float(next_row.total))
  /\ row_index' = row_index + 1
  /\ UNCHANGED <<fetch_group, csv_rows, cpc>>
  /\ UNCHANGED notCosts

\* line 508-516: one round of the loop of _get_gibstrat_tracking_pos_prices
\* (the rows have an empty Commission Total)
GibstratRow ==
  /\ AtRow("gibstrat")
  /\ tracking_infos' =
       ledger_add(tracking_infos, <<next_row.tracking>>, fetch_group,
                  (IF next_row.total # <<>> THEN float(next_row.total) ELSE 0) + 0, "unknown")
  /\ row_index' = row_index + 1
  /\ UNCHANGED <<fetch_group, csv_rows, po_to_cost_map, cpc>>
  /\ UNCHANGED notCosts

\* line 157-161: one row of a file of _recon_via_csvs
CsvRow ==
  /\ AtRow("csv")
  /\ IF next_row.total = <<>>
     THEN cpc' = "raised" /\ UNCHANGED <<row_index, tracking_infos>>
     ELSE /\ tracking_infos' = ledger_add(tracking_infos, <<next_row.tracking>>, fetch_group,
                                          float(next_row.total), "")
          /\ row_index' = row_index + 1
          /\ UNCHANGED cpc
  /\ UNCHANGED <<fetch_group, csv_rows, po_to_cost_map>>
  /\ UNCHANGED notCosts

\* line 746-767, 83-92: one payment email of _get_bfmr_costs, its table holding
\* one row in the standard layout; an exception is caught and the email ignored
BfmrRow ==
  /\ AtRow("bfmr")
  /\ tracking_infos' =
       IF next_row.total = <<>> THEN tracking_infos
       ELSE ledger_add(tracking_infos, <<next_row.tracking>>, "bfmr",
                       float(next_row.total), next_row.date)
  /\ row_index' = row_index + 1
  /\ UNCHANGED <<fetch_group, csv_rows, po_to_cost_map, cpc>>
  /\ UNCHANGED notCosts

\* line 361-362: pos_to_prices[entry['purchase_id']] = float(entry['purchase']['amount'])
RECURSIVE usa_pos_to_prices(_, _)
usa_pos_to_prices(entries, n) ==
  IF n = 0 THEN <<>>
  ELSE po_set(usa_pos_to_prices(entries, n - 1), entries[n].po, float(entries[n].amount))

\* line 358-363: _get_usa_tracking_pos_prices up to the creation of the tasks
UsaEntries ==
  /\ cpc = "entries"
  /\ po_to_cost_map' = usa_pos_to_prices(csv_rows, Len(csv_rows))
  /\ cpc' = "rows"
  /\ UNCHANGED <<fetch_group, csv_rows, row_index, tracking_infos>>
  /\ UNCHANGED notCosts

\* line 346-355: the lookup of one tracking number completes (the list gives
\* the order of completion); a response without a price raises inside the task
UsaResponse ==
  /\ AtRow("usa")
  /\ tracking_infos' =
       IF next_row.total = <<>> THEN tracking_infos
       ELSE ledger_set(tracking_infos, <<next_row.tracking>>, "usa", float(next_row.total), "")
  /\ row_index' = row_index + 1
  /\ UNCHANGED <<fetch_group, csv_rows, po_to_cost_map, cpc>>
  /\ UNCHANGED notCosts

\* variant: an unknown group is an error
ReturnEmptyRaising ==
  /\ cpc = "rows"
  /\ adapter_for(fetch_group) = "none"
  /\ cpc' = "raised"
  /\ UNCHANGED <<fetch_group, csv_rows, row_index, tracking_infos, po_to_cost_map>>
  /\ UNCHANGED notCosts

\* line 232: return dict(), dict()
ReturnEmpty ==
  /\ cpc = "rows"
  /\ adapter_for(fetch_group) = "none"
  /\ tracking_infos' = <<>>
  /\ po_to_cost_map' = <<>>
  /\ cpc' = "returned"
  /\ UNCHANGED <<fetch_group, csv_rows, row_index>>
  /\ UNCHANGED notCosts

\* the adapter has taken every row and returns its maps
AdapterReturn ==
  /\ cpc = "rows"
  /\ adapter_for(fetch_group) # "none"
  /\ row_index = Len(csv_rows)
  /\ cpc' = "returned"
  /\ UNCHANGED <<fetch_group, csv_rows, row_index, tracking_infos, po_to_cost_map>>
  /\ UNCHANGED notCosts

NextCosts ==
  \/ MelulRow
  \/ EmbRow
  \/ OaksRow
  \/ YrcwRow
  \/ GibstratRow
  \/ CsvRow
  \/ BfmrRow
  \/ UsaEntries
  \/ UsaResponse
  \/ ReturnEmpty
  \/ AdapterReturn

SpecCosts == InitCosts /\ [][NextCosts]_vars

(***************************************************************************)
(* SpecSite: the calls of get_new_tracking_pos_costs_maps_with_retry and   *)
(* of _upload_to_group on one GroupSiteManager, attempt by attempt, with   *)
(* the archive of the portal sub-groups (group_site_manager.py).  What an  *)
(* upstream source answers to an attempt is the environment's choice: a    *)
(* result, a transient failure, or data in a format the code does not      *)
(* know.  ArchiveManager is not part of the sources at hand and is taken   *)
(* from its interface contract: has, get, put on a persistent store.       *)
(***************************************************************************)
FETCH_ATTEMPTS == 5
MAX_UPLOAD_ATTEMPTS == 10

\* config['groups'][g]['archives']
archives_of(g) == IF g = "mysbuyinggroup" THEN <<"archive1", "archive2">> ELSE <<>>

\* the groups of the cost fetches and of the uploads
FetchGroups == {"mysbuyinggroup", "bfmr"}
UploadGroups == {"mysbuyinggroup", "usa", "nosuchgroup"}

\* ArchiveManager.has_archive / put_archive / get_archive
has_archive(store, g) == g \in DOMAIN store
put_archive(store, g, po, infos) ==
  [ k \in DOMAIN store \cup {g} |->
      IF k = g THEN [po_cost |-> po, trackings_info |-> infos] ELSE store[k] ]
get_archive(store, g) == store[g]

\* (variant: the entries of d are kept where both maps have the key)
dict_update_first_kept(d, e) ==
  [ k \in DOMAIN d \cup DOMAIN e |-> IF k \in DOMAIN d THEN d[k] ELSE e[k] ]

\* dict.update: the entries of e replace those of d
dict_update(d, e) ==
  [ k \in DOMAIN d \cup DOMAIN e |-> IF k \in DOMAIN e THEN e[k] ELSE d[k] ]

\* the keys the portal reports for a group: the live group T1 and T3,
\* archive1 T1, archive2 T1 and T2 (and the purchase orders likewise)
portal_trackings(g) ==
  IF g = "archive1" THEN {<<"T1">>}
  ELSE IF g = "archive2" THEN {<<"T1">>, <<"T2">>}
  ELSE {<<"T1">>, <<"T3">>}
portal_pos(g) ==
  IF g = "archive1" THEN {"P1"} ELSE IF g = "archive2" THEN {"P1", "P2"} ELSE {"P1", "P3"}

\* what the portal can answer for a group: its keys, with one of two costs
PortalData(g) ==
  { [ trackings_info |-> [ t \in portal_trackings(g) |-> [group |-> g, cost |-> c] ],
      po_cost |-> [ p \in portal_pos(g) |-> c ] ] : c \in {3, 5} }

\* what a call hands back: kind "ok" with the maps, or kind "error" with the
\* message and the exception it carries
Returned(infos, po) ==
  [kind |-> "ok", trackings_info |-> infos, po_cost |-> po, message |-> "", cause |-> NoError]
Raised(message, cause) ==
  [kind |-> "error", trackings_info |-> <<>>, po_cost |-> <<>>, message |-> message,
   cause |-> cause]

\* variant: one more round than the loop has
attempt_limit_one_more(op) ==
  IF op = "fetch" THEN FETCH_ATTEMPTS + 1 ELSE MAX_UPLOAD_ATTEMPTS + 1

\* line 186, 439: range(5), range(MAX_UPLOAD_ATTEMPTS)
attempt_limit(op) == IF op = "fetch" THEN FETCH_ATTEMPTS ELSE MAX_UPLOAD_ATTEMPTS

\* variant: the sub-group is fetched whether or not it is archived
needs_fetch_always(store, g) == TRUE

\* line 207: if not self.archive_manager.has_archive(archive_group)
needs_fetch(store, g) == ~has_archive(store, g)

\* line 442-457: the groups the upload dispatch knows
upload_known(g) ==
  \/ g \in melul_portal_groups
  \/ g \in {"usa", "yrcw", "bfmr", "oaks", "dtmd", "gibstrat", "embdeals"}

InitSite ==
  /\ NoSiteCall
  /\ ClustersIdle
  /\ NoObjects
  /\ NoCostCall
  /\ NoTasks
  /\ NoRowCluster
  /\ NoSheetRow
  /\ NoExpectedCosts
  /\ NoDrivers

\* a call of get_new_tracking_pos_costs_maps_with_retry / _upload_to_group begins
Call(op, g) ==
  /\ spc \in {"idle", "returned", "raised"}
  /\ site_op' = op
  /\ site_group' = g
  /\ attempt' = 0
  /\ last_exc' = NoError
  /\ spc' = "try"
  /\ archive_index' = 0
  /\ trackings_info' = <<>>
  /\ po_cost' = <<>>
  /\ site_result' = NoResult
  /\ event' = NoEvent
  /\ UNCHANGED archive
  /\ UNCHANGED notSite

\* the round of the loop the call is about to enter
AtTry(op) == site_op = op /\ spc = "try" /\ attempt < attempt_limit(op)

\* line 187-192, 197-201: a round begins with the fetch of the live portal group
FetchLive ==
  /\ AtTry("fetch")
  /\ site_group \in melul_portal_groups
  /\ attempt' = attempt + 1
  /\ \/ \E data \in PortalData(site_group) :
          /\ trackings_info' = data.trackings_info
          /\ po_cost' = data.po_cost
          /\ spc' = "archives"
          /\ archive_index' = 1
          /\ event' = [source |-> site_group, outcome |-> "ok"]
          /\ UNCHANGED last_exc
     \/ \E kind \in {"transient", "format"} :
          /\ last_exc' = [kind |-> kind, attempt |-> attempt + 1]
          /\ event' = [source |-> site_group, outcome |-> kind]
          /\ UNCHANGED <<trackings_info, po_cost, spc, archive_index>>
  /\ UNCHANGED <<archive, site_op, site_group, site_result>>
  /\ UNCHANGED notSite

\* the sub-group the loop over the archives is at
archive_group == archives_of(site_group)[archive_index]

AtArchive == spc = "archives" /\ archive_index <= Len(archives_of(site_group))

\* line 207-211: the sub-group is fetched from the portal and put into the archive
ArchiveFetchPut ==
  /\ AtArchive
  /\ needs_fetch(archive, archive_group)
  /\ \/ \E data \in PortalData(archive_group) :
          /\ archive' = put_archive(archive, archive_group, data.po_cost, data.trackings_info)
          /\ event' = [source |-> archive_group, outcome |-> "ok"]
          /\ UNCHANGED <<last_exc, spc>>
     \/ \E kind \in {"transient", "format"} :
          /\ last_exc' = [kind |-> kind, attempt |-> attempt]
          /\ spc' = "try"
          /\ event' = [source |-> archive_group, outcome |-> kind]
          /\ UNCHANGED archive
  /\ UNCHANGED <<site_op, site_group, attempt, archive_index, trackings_info, po_cost,
                 site_result>>
  /\ UNCHANGED notSite

\* line 213-215: the sub-group's maps are read from the archive and merged in
ArchiveRead ==
  /\ AtArchive
  /\ ~needs_fetch(archive, archive_group)
  /\ po_cost' = dict_update(po_cost, get_archive(archive, archive_group).po_cost)
  /\ trackings_info' =
       dict_update(trackings_info, get_archive(archive, archive_group).trackings_info)
  /\ archive_index' = archive_index + 1
  /\ event' = NoEvent
  /\ UNCHANGED <<archive, site_op, site_group, attempt, last_exc, spc, site_result>>
  /\ UNCHANGED notSite

\* line 217, 188: return trackings_info, po_cost
FetchReturn ==
  /\ spc = "archives"
  /\ archive_index > Len(archives_of(site_group))
  /\ spc' = "returned"
  /\ site_result' = Returned(trackings_info, po_cost)
  /\ event' = NoEvent
  /\ UNCHANGED <<archive, site_op, site_group, attempt, last_exc, archive_index,
                 trackings_info, po_cost>>
  /\ UNCHANGED notSite

\* line 196-198, 740-769: a round for group bfmr; an exception inside the
\* handling of one email is caught there (line 766) and the email is ignored
BfmrFetch ==
  /\ AtTry("fetch")
  /\ site_group = "bfmr"
  /\ attempt' = attempt + 1
  /\ \/ \E data \in PortalData("bfmr") :
          /\ site_result' = Returned(data.trackings_info, <<>>)
          /\ spc' = "returned"
          /\ event' = [source |-> "bfmr", outcome |-> "ok"]
          /\ UNCHANGED last_exc
     \/ /\ site_result' = Returned(<<>>, <<>>)
        /\ spc' = "returned"
        /\ event' = [source |-> "bfmr", outcome |-> "format"]
        /\ UNCHANGED last_exc
     \/ /\ last_exc' = [kind |-> "transient", attempt |-> attempt + 1]
        /\ event' = [source |-> "bfmr", outcome |-> "transient"]
        /\ UNCHANGED <<spc, site_result>>
  /\ UNCHANGED <<archive, site_op, site_group, archive_index, trackings_info, po_cost>>
  /\ UNCHANGED notSite

\* line 439-466: one round of the loop of _upload_to_group
UploadAttempt ==
  /\ AtTry("upload")
  /\ attempt' = attempt + 1
  /\ IF upload_known(site_group)
     THEN \/ /\ site_result' = Returned(<<>>, <<>>)
             /\ spc' = "returned"
             /\ event' = [source |-> site_group, outcome |-> "ok"]
             /\ UNCHANGED last_exc
          \/ /\ last_exc' = [kind |-> "transient", attempt |-> attempt + 1]
             /\ event' = [source |-> site_group, outcome |-> "transient"]
             /\ UNCHANGED <<spc, site_result>>
     ELSE /\ last_exc' = [kind |-> "unknown_group", attempt |-> attempt + 1]
          /\ event' = [source |-> "none", outcome |-> "unknown_group"]
          /\ UNCHANGED <<spc, site_result>>
  /\ UNCHANGED <<archive, site_op, site_group, archive_index, trackings_info, po_cost>>
  /\ UNCHANGED notSite

\* line 193, 467: the loop is exhausted
ExceededRetryLimit ==
  /\ spc = "try"
  /\ ~(attempt < attempt_limit(site_op))
  /\ spc' = "raised"
  /\ site_result' = Raised("Exceeded retry limit", last_exc)
  /\ event' = NoEvent
  /\ UNCHANGED <<archive, site_op, site_group, attempt, last_exc, archive_index,
                 trackings_info, po_cost>>
  /\ UNCHANGED notSite

NextSite ==
  \/ \E g \in FetchGroups : Call("fetch", g)
  \/ \E g \in UploadGroups : Call("upload", g)
  \/ FetchLive
  \/ ArchiveFetchPut
  \/ ArchiveRead
  \/ FetchReturn
  \/ BfmrFetch
  \/ UploadAttempt
  \/ ExceededRetryLimit

SpecSite == InitSite /\ [][NextSite]_vars

(***************************************************************************)
(* SpecFanout: _get_usa_tracking_pos_prices with its lookup tasks, one per *)
(* entry of the tracking list, run by asyncio.gather: a task gives up      *)
(* control at each await, so the tasks' steps interleave in any order.     *)
(* The entry's total is the total_price of the lookup's response; the      *)
(* empty text is a response without a price.                               *)
(***************************************************************************)
InitFanout ==
  /\ fetch_group = "usa"
  /\ IsRowList(csv_rows, fetch_group)
  /\ row_index = 0
  /\ tracking_infos = <<>>
  /\ po_to_cost_map = <<>>
  /\ cpc = "entries"
  /\ NoTasks
  /\ NoRowCluster
  /\ NoSheetRow
  /\ NoExpectedCosts
  /\ NoDrivers
  /\ ClustersIdle
  /\ NoObjects
  /\ NoSiteCall

\* line 358-369: the purchase-order map is filled, one task is made per entry,
\* and gather starts them
UsaCreateTasks ==
  /\ cpc = "entries"
  /\ po_to_cost_map' = usa_pos_to_prices(csv_rows, Len(csv_rows))
  /\ task_pc' = [i \in DOMAIN csv_rows |-> "created"]
  /\ cpc' = "gather"
  /\ UNCHANGED <<fetch_group, csv_rows, row_index, tracking_infos>>
  /\ UNCHANGED notTasks

\* line 347-348: the task sends its request and awaits the response
TaskRequest(i) ==
  /\ cpc = "gather"
  /\ task_pc[i] = "created"
  /\ task_pc' = [task_pc EXCEPT ![i] = "requested"]
  /\ UNCHANGED <<fetch_group, csv_rows, row_index, tracking_infos, po_to_cost_map, cpc>>
  /\ UNCHANGED notTasks

\* variant: the failure of a request leaves the task and ends the fetch
TaskResponseUncaught(i) ==
  /\ cpc = "gather"
  /\ task_pc[i] = "requested"
  /\ \/ task_pc' = [task_pc EXCEPT ![i] = "reading"] /\ UNCHANGED cpc
     \/ task_pc' = [task_pc EXCEPT ![i] = "failed"] /\ cpc' = "raised"
  /\ UNCHANGED <<fetch_group, csv_rows, row_index, tracking_infos, po_to_cost_map>>
  /\ UNCHANGED notTasks

\* line 347-350, 353-355: the response arrives and the task awaits its body,
\* or the request or raise_for_status raises and the task ends in its handler
TaskResponse(i) ==
  /\ cpc = "gather"
  /\ task_pc[i] = "requested"
  /\ \/ task_pc' = [task_pc EXCEPT ![i] = "reading"]
     \/ task_pc' = [task_pc EXCEPT ![i] = "failed"]
  /\ UNCHANGED <<fetch_group, csv_rows, row_index, tracking_infos, po_to_cost_map, cpc>>
  /\ UNCHANGED notTasks

\* line 350-355: the body is read; the price is recorded, or float() raises
\* and the task ends in its handler
TaskFinish(i) ==
  /\ cpc = "gather"
  /\ task_pc[i] = "reading"
  /\ IF csv_rows[i].total = <<>>
     THEN /\ task_pc' = [task_pc EXCEPT ![i] = "failed"]
          /\ UNCHANGED tracking_infos
     ELSE /\ task_pc' = [task_pc EXCEPT ![i] = "done"]
          /\ tracking_infos' = ledger_set(tracking_infos, <<csv_rows[i].tracking>>, "usa",
                                          float(csv_rows[i].total), "")
  /\ UNCHANGED <<fetch_group, csv_rows, row_index, po_to_cost_map, cpc>>
  /\ UNCHANGED notTasks

\* variant: the maps are returned when the first task has ended
GatherReturnFirstCompleted ==
  /\ cpc = "gather"
  /\ \E i \in DOMAIN task_pc : task_pc[i] \in {"done", "failed"}
  /\ cpc' = "returned"
  /\ UNCHANGED <<fetch_group, csv_rows, row_index, tracking_infos, po_to_cost_map, task_pc>>
  /\ UNCHANGED notTasks

\* line 370-371: gather has every task's end, the maps are returned
GatherReturn ==
  /\ cpc = "gather"
  /\ \A i \in DOMAIN task_pc : task_pc[i] \in {"done", "failed"}
  /\ cpc' = "returned"
  /\ UNCHANGED <<fetch_group, csv_rows, row_index, tracking_infos, po_to_cost_map, task_pc>>
  /\ UNCHANGED notTasks

NextFanout ==
  \/ UsaCreateTasks
  \/ \E i \in DOMAIN task_pc : TaskRequest(i)
  \/ \E i \in DOMAIN task_pc : TaskResponse(i)
  \/ \E i \in DOMAIN task_pc : TaskFinish(i)
  \/ GatherReturn

SpecFanout == InitFanout /\ [][NextFanout]_vars

(***************************************************************************)
(* The browser sessions of the portal flows (group_site_manager.py).       *)
(* Every _login_X builds the driver and then works the login page; its     *)
(* caller keeps the driver in a try/finally that starts after the login    *)
(* has returned.                                                           *)
(***************************************************************************)
\* browser sessions that may be open at once in the behaviours explored
MaxDrivers == 3

\* groups whose upload and whose cost fetch both drive a browser
BrowserGroups == {"embdeals", "mysbuyinggroup"}

\* the state outside the browser flows
notBrowser == <<updateVars, mergeVars, aliasVars, costVars, task_pc, expected_costs, sheet,
                row_cluster>>

InitBrowser ==
  /\ NoSiteCall
  /\ NoDrivers
  /\ ClustersIdle
  /\ NoObjects
  /\ NoCostCall
  /\ NoTasks
  /\ NoRowCluster
  /\ NoSheetRow
  /\ NoExpectedCosts

\* line 539, 610, 686, 726: driver = self.driver_creator.new(...), the first
\* browser step of a round of the retry loop
DriverNew ==
  /\ spc = "try"
  /\ attempt < attempt_limit(site_op)
  /\ drivers < MaxDrivers
  /\ attempt' = attempt + 1
  /\ drivers' = drivers + 1
  /\ spc' = "login"
  /\ event' = [source |-> site_group, outcome |-> "driver"]
  /\ UNCHANGED <<archive, site_op, site_group, last_exc, archive_index, trackings_info,
                 po_cost, site_result>>
  /\ UNCHANGED notBrowser

\* line 541-550, 687-722: a page load or find_element of the login raises; the
\* exception leaves _login_X before `return driver`, the caller's try/finally has
\* not been entered, and the loop's except clause (line 463, 190) catches it
LoginFails ==
  /\ spc = "login"
  /\ last_exc' = [kind |-> "transient", attempt |-> attempt]
  /\ spc' = "try"
  /\ event' = [source |-> site_group, outcome |-> "login_failed"]
  /\ UNCHANGED drivers
  /\ UNCHANGED <<archive, site_op, site_group, attempt, archive_index, trackings_info,
                 po_cost, site_result>>
  /\ UNCHANGED notBrowser

\* line 551, 723: return driver; the caller enters its try block
LoginDone ==
  /\ spc = "login"
  /\ spc' = "body"
  /\ event' = [source |-> site_group, outcome |-> "logged_in"]
  /\ UNCHANGED drivers
  /\ UNCHANGED <<archive, site_op, site_group, attempt, last_exc, archive_index,
                 trackings_info, po_cost, site_result>>
  /\ UNCHANGED notBrowser

\* line 555-567, 239-252: the body ends normally, finally: driver.quit()
BodyDone ==
  /\ spc = "body"
  /\ drivers' = drivers - 1
  /\ spc' = "returned"
  /\ site_result' = Returned(<<>>, <<>>)
  /\ event' = [source |-> site_group, outcome |-> "ok"]
  /\ UNCHANGED <<archive, site_op, site_group, attempt, last_exc, archive_index,
                 trackings_info, po_cost>>
  /\ UNCHANGED notBrowser

\* the body raises, finally: driver.quit(), the loop's except clause catches
BodyFails ==
  /\ spc = "body"
  /\ drivers' = drivers - 1
  /\ last_exc' = [kind |-> "transient", attempt |-> attempt]
  /\ spc' = "try"
  /\ event' = [source |-> site_group, outcome |-> "transient"]
  /\ UNCHANGED <<archive, site_op, site_group, attempt, archive_index, trackings_info,
                 po_cost, site_result>>
  /\ UNCHANGED notBrowser

NextBrowser ==
  \/ \E op \in {"fetch", "upload"}, g \in BrowserGroups : Call(op, g)
  \/ DriverNew
  \/ LoginFails
  \/ LoginDone
  \/ BodyDone
  \/ BodyFails
  \/ ExceededRetryLimit

SpecBrowser == InitBrowser /\ [][NextBrowser]_vars

(***************************************************************************)
(* SpecFill: fill_expected_costs (get_tracking_numbers.py) on the lists    *)
(* merge_orders returns for up to two stored clusters.  ExpectedCosts is   *)
(* the expected-cost lookup of the specification: get_expected_cost(o),    *)
(* 0 for unknown orders.                                                   *)
(***************************************************************************)
\* the tables the lookup may hold
ExpectedCostTables ==
  UNION { [known -> {3, 5}] : known \in SUBSET {"O1", "O2"} }

\* get_expected_cost(order_id) -> number, defaulting to 0 for unknown orders
get_expected_cost(table, order_id) ==
  IF order_id \in DOMAIN table THEN table[order_id] ELSE 0

\* line 27-30: sum([get_expected_cost(o) for o in cluster.orders])
RECURSIVE total_expected_cost(_, _)
total_expected_cost(table, orders) ==
  IF orders = {} THEN 0
  ELSE LET o == CHOOSE x \in orders : TRUE
       IN get_expected_cost(table, o) + total_expected_cost(table, orders \ {o})

\* variant: the total is added to the value the cluster had
fill_expected_costs_accumulating(cs, table) ==
  [ i \in 1..Len(cs) |->
      [cs[i] EXCEPT !.expected_cost = @ + total_expected_cost(table, cs[i].orders)] ]

\* line 26-31: the loop over all_clusters
fill_expected_costs(cs, table) ==
  [ i \in 1..Len(cs) |->
      [cs[i] EXCEPT !.expected_cost = total_expected_cost(table, cs[i].orders)] ]

InitFill ==
  /\ \E n \in 0..2 : \E choice \in [1..n -> MergeParams] :
       all_clusters \in merge_orders(StoredList(n, choice))
  /\ expected_costs \in ExpectedCostTables
  /\ order_to_cluster = <<>>
  /\ tracking = NoTracking
  /\ pc = "idle"
  /\ n0 = 0
  /\ steps = 0
  /\ input = <<>>
  /\ clusters = <<>>
  /\ prev_length = 0
  /\ passes = 0
  /\ mpc = "off"
  /\ NoObjects
  /\ NoCostCall
  /\ NoSiteCall
  /\ NoTasks
  /\ NoRowCluster
  /\ NoSheetRow
  /\ NoDrivers

\* fill_expected_costs(all_clusters, config), the first call or a later one
FillExpectedCosts ==
  /\ pc \in {"idle", "filled"}
  /\ all_clusters' = fill_expected_costs(all_clusters, expected_costs)
  /\ pc' = "filled"
  /\ UNCHANGED <<order_to_cluster, tracking, n0, steps, expected_costs>>
  /\ UNCHANGED mergeVars
  /\ UNCHANGED <<aliasVars, costVars, siteVars, task_pc, drivers, sheet, row_cluster>>

NextFill == FillExpectedCosts

SpecFill == InitFill /\ [][NextFill]_vars

(***************************************************************************)
(* SpecRow: Cluster.to_row and from_row (clusters.py).  The identifiers of *)
(* the exported clusters are sequences of characters, since join, split    *)
(* and strip compute on them.  A cell is a str, a number or a bool, as the *)
(* row list holds them; the row is indexed by the column name, that is, by *)
(* header.index(name) in a row as long as its header.                      *)
(***************************************************************************)
\* line 56-61: get_header()
get_header ==
  { "Orders", "Trackings", "To Email", "Amount Billed", "Amount Reimbursed",
    "Non-Reimbursed Trackings", "Last Ship Date", "Last Delivery Date (Est.)", "POs", "Group",
    "Manual Cost Adjustment", "Manual Override", "Total Diff", "Notes", "Cancelled Items" }

Str(text) == [kind |-> "str", value |-> text]
Num(n) == [kind |-> "num", value |-> n]
Bool(b) == [kind |-> "bool", value |-> b]

\* the truth value of a cell in `x if cell else y`
truthy(cell) ==
  IF cell.kind = "str" THEN cell.value # <<>>
  ELSE IF cell.kind = "num" THEN cell.value # 0
  ELSE cell.value

\* ", ".join(parts)
RECURSIVE join(_)
join(parts) ==
  IF parts = <<>> THEN <<>>
  ELSE IF Len(parts) = 1 THEN parts[1]
  ELSE parts[1] \o <<",", " ">> \o join(Tail(parts))

\* text.split(','): the pieces between the commas, [''] for the empty text
RECURSIVE split(_)
split(text) ==
  IF \E i \in 1..Len(text) : text[i] = ","
  THEN LET i == CHOOSE k \in 1..Len(text) :
                  text[k] = "," /\ \A j \in 1..(k - 1) : text[j] # ","
       IN <<SubSeq(text, 1, i - 1)>> \o split(SubSeq(text, i + 1, Len(text)))
  ELSE <<text>>

\* [p.strip() for p in text.split(',')]
stripped_pieces(text) == [ k \in 1..Len(split(text)) |-> strip(split(text)[k]) ]

\* set([p.strip() for p in text.split(',')])
split_set(text) == { stripped_pieces(text)[k] : k \in 1..Len(stripped_pieces(text)) }

\* the orders in which iterating a set can yield its elements
orderings(S) ==
  { s \in [1..Cardinality(S) -> S] : \A i, j \in 1..Cardinality(S) : s[i] = s[j] => i = j }

\* line 63-69: to_row(), the sets iterated in the orders given
to_row(c, ord) ==
  [ col \in get_header |->
      CASE col = "Orders" -> Str(join(ord.orders))
        [] col = "Trackings" -> Str(join(ord.trackings))
        [] col = "To Email" -> Str(c.to_email)
        [] col = "Amount Billed" -> Num(c.expected_cost)
        [] col = "Amount Reimbursed" -> Num(c.tracked_cost)
        [] col = "Non-Reimbursed Trackings" -> Str(join(ord.non_reimbursed_trackings))
        [] col = "Last Ship Date" -> Str(c.last_ship_date)
        [] col = "Last Delivery Date (Est.)" -> Str(c.last_delivery_date)
        [] col = "POs" -> Str(<<"'">> \o join(ord.purchase_orders))
        [] col = "Group" -> Str(c.group)
        [] col = "Manual Cost Adjustment" -> Num(c.adjustment)
        [] col = "Manual Override" -> Bool(c.manual_override)
        [] col = "Total Diff" -> Str(<<"=", "D", "-", "E", "-", "K">>)
        [] col = "Notes" -> Str(c.notes)
        [] col = "Cancelled Items" -> Str(join(c.cancelled_items)) ]

\* row[header.index(col)] if col in header else default
cell_or(header, row, col, default) == IF col \in header THEN row[col] ELSE default

\* variant: float() is applied to every cell, blank or not
number_or_zero_unguarded(cell) ==
  IF cell.kind = "str" /\ cell.value = <<>> THEN [raised |-> TRUE, value |-> 0]
  ELSE [raised |-> FALSE, value |-> IF cell.kind = "str" THEN float(cell.value) ELSE cell.value]

\* line 189, 191, 205: float(s) if s else 0.0
number_or_zero(cell) ==
  IF truthy(cell)
  THEN [raised |-> FALSE, value |-> IF cell.kind = "str" THEN float(cell.value) ELSE cell.value]
  ELSE [raised |-> FALSE, value |-> 0]

\* line 194-195, 200, 211-212: the guarded split of a cell's text
split_if_any(cell) == IF truthy(cell) THEN stripped_pieces(cell.value) ELSE <<>>

\* line 177-217: from_row(header, row)
from_row(header, row) ==
  LET expected_cost == number_or_zero(cell_or(header, row, "Amount Billed", Str(<<>>)))
      tracked_cost == number_or_zero(cell_or(header, row, "Amount Reimbursed", Str(<<>>)))
      adjustment == number_or_zero(cell_or(header, row, "Manual Cost Adjustment", Str(<<>>)))
      non_reimbursed == split_if_any(cell_or(header, row, "Non-Reimbursed Trackings", Str(<<>>)))
      pos == split_if_any(cell_or(header, row, "POs", Str(<<>>)))
      cluster ==
        [ orders |-> IF "Orders" \in header THEN split_set(row["Orders"].value) ELSE {},
          trackings |-> IF "Trackings" \in header THEN split_set(row["Trackings"].value) ELSE {},
          group |-> cell_or(header, row, "Group", Str(<<>>)).value,
          expected_cost |-> expected_cost.value,
          tracked_cost |-> tracked_cost.value,
          last_ship_date |-> cell_or(header, row, "Last Ship Date", Str(<<0>>)).value,
          purchase_orders |-> { pos[k] : k \in 1..Len(pos) },
          email_ids |-> {},
          adjustment |-> adjustment.value,
          to_email |-> cell_or(header, row, "To Email", Str(<<>>)).value,
          notes |-> cell_or(header, row, "Notes", Str(<<>>)).value,
          manual_override |-> cell_or(header, row, "Manual Override", Bool(FALSE)).value,
          non_reimbursed_trackings |-> { non_reimbursed[k] : k \in 1..Len(non_reimbursed) },
          cancelled_items |-> split_if_any(cell_or(header, row, "Cancelled Items", Str(<<>>))),
          last_delivery_date |->
            cell_or(header, row, "Last Delivery Date (Est.)", Str(<<>>)).value ]
  IN IF expected_cost.raised \/ tracked_cost.raised \/ adjustment.raised
     THEN [kind |-> "raised", cluster |-> <<>>]
     ELSE [kind |-> "ok", cluster |-> cluster]

\* the identifiers of the exported clusters: no comma, no surrounding blank
RowIds == { <<"a">>, <<"b">> }

\* the clusters to_row is called on: every choice of the four identifier sets
ExportedClusters ==
  { [ Cluster(<<"g">>) EXCEPT
        !.orders = f.orders, !.trackings = f.trackings,
        !.purchase_orders = f.purchase_orders,
        !.non_reimbursed_trackings = f.non_reimbursed_trackings,
        !.expected_cost = 5, !.to_email = <<"e">>, !.cancelled_items = <<<<"a">>>> ] :
    f \in [ orders : SUBSET RowIds, trackings : SUBSET RowIds,
            purchase_orders : SUBSET RowIds, non_reimbursed_trackings : SUBSET RowIds ] }

\* what a filled cell of a sheet row holds
sample_cell(col) ==
  CASE col \in {"Orders", "Trackings", "POs", "Non-Reimbursed Trackings", "Cancelled Items"} ->
         Str(<<"a", ",", " ", "b">>)
    [] col \in {"Amount Billed", "Amount Reimbursed", "Manual Cost Adjustment"} -> Str(<<1, 5>>)
    [] col \in {"Last Ship Date", "Last Delivery Date (Est.)"} -> Str(<<2>>)
    [] col = "Manual Override" -> Bool(TRUE)
    [] OTHER -> Str(<<"x">>)

\* the columns a sheet row lacks, or has blank: none, any one, or all
ColumnChoices == { m \in SUBSET get_header : Cardinality(m) <= 1 } \cup {get_header}

\* the state outside the sheet row and its cluster
notRow == <<updateVars, mergeVars, aliasVars, costVars, siteVars, task_pc, drivers,
            expected_costs>>

InitRow ==
  /\ NoSheetRow
  /\ NoRowCluster
  /\ ClustersIdle
  /\ NoObjects
  /\ NoCostCall
  /\ NoSiteCall
  /\ NoTasks
  /\ NoDrivers
  /\ NoExpectedCosts

\* a row of the sheet, under the sheet's header
SheetRow(missing, blank) ==
  /\ sheet.kind = "none"
  /\ sheet' = [ kind |-> "sheet", header |-> get_header \ missing,
                row |-> [ col \in get_header \ missing |->
                            IF col \in blank THEN Str(<<>>) ELSE sample_cell(col) ],
                cluster |-> <<>> ]
  /\ UNCHANGED row_cluster
  /\ UNCHANGED notRow

\* c.get_header(), c.to_row()
ToRow(c, ord) ==
  /\ sheet.kind = "none"
  /\ sheet' = [kind |-> "export", header |-> get_header, row |-> to_row(c, ord), cluster |-> c]
  /\ UNCHANGED row_cluster
  /\ UNCHANGED notRow

\* from_row(header, row)
FromRowCall ==
  /\ sheet.kind # "none"
  /\ row_cluster.kind = "none"
  /\ row_cluster' = from_row(sheet.header, sheet.row)
  /\ UNCHANGED sheet
  /\ UNCHANGED notRow

NextRow ==
  \/ \E missing \in ColumnChoices, blank \in ColumnChoices : SheetRow(missing, blank)
  \/ \E c \in ExportedClusters :
       \E ord \in [ orders : orderings(c.orders), trackings : orderings(c.trackings),
                    purchase_orders : orderings(c.purchase_orders),
                    non_reimbursed_trackings : orderings(c.non_reimbursed_trackings) ] :
         ToRow(c, ord)
  \/ FromRowCall

SpecRow == InitRow /\ [][NextRow]_vars

(***************************************************************************)
(* SpecFold: merge_with calls on three stored clusters, in any order.  As  *)
(* in run_merge_iteration, the cluster folded into another leaves the list.*)
(***************************************************************************)
\* the list without its j-th cluster
without(cs, j) == [ k \in 1..(Len(cs) - 1) |-> IF k < j THEN cs[k] ELSE cs[k + 1] ]

\* the keys, groups and flags of the three clusters
FoldParams ==
  [ group : Groups, purchase_orders : {{}, {"P1"}, {"P2"}}, email_ids : SUBSET EmailIds,
    manual_override : {FALSE} ]

InitFold ==
  /\ \E choice \in [1..3 -> FoldParams] : input = StoredList(3, choice)
  /\ clusters = input
  /\ prev_length = 0
  /\ passes = 0
  /\ mpc = "off"
  /\ all_clusters = <<>>
  /\ order_to_cluster = <<>>
  /\ tracking = NoTracking
  /\ pc = "idle"
  /\ n0 = 0
  /\ steps = 0
  /\ OtherIdle

\* clusters[i].merge_with(clusters[j]) (line 71-92); clusters[j] is dropped
MergeWithCall(i, j) ==
  /\ i # j
  /\ clusters' = without([clusters EXCEPT ![i] = merge_with(clusters[i], clusters[j])], j)
  /\ UNCHANGED <<input, prev_length, passes, mpc>>
  /\ UNCHANGED updateVars
  /\ UNCHANGED otherVars

NextFold == \E i, j \in DOMAIN clusters : MergeWithCall(i, j)

SpecFold == InitFold /\ [][NextFold]_vars

(***************************************************************************)
(* Properties                                                              *)
(***************************************************************************)
Indices(cs) == 1..Len(cs)

UnionOrders(cs) == UNION { cs[i].orders : i \in Indices(cs) }
UnionTrackings(cs) == UNION { cs[i].trackings : i \in Indices(cs) }
UnionPurchaseOrders(cs) == UNION { cs[i].purchase_orders : i \in Indices(cs) }
UnionEmailIds(cs) == UNION { cs[i].email_ids : i \in Indices(cs) }
TotalExpectedCost(cs) == SumSeq([i \in Indices(cs) |-> cs[i].expected_cost])
TotalTrackedCost(cs) == SumSeq([i \in Indices(cs) |-> cs[i].tracked_cost])
TotalAdjustment(cs) == SumSeq([i \in Indices(cs) |-> cs[i].adjustment])

\* two clusters that merge_orders is meant to coalesce: a common email_id, or
\* a common purchase order together with the same group string
ShareKey(a, b) ==
  \/ a.email_ids \cap b.email_ids # {}
  \/ a.group = b.group /\ a.purchase_orders \cap b.purchase_orders # {}

\* the positions of cs linked to a position of S through a chain of shared keys
RECURSIVE LinkedTo(_, _)
LinkedTo(cs, S) ==
  LET more == S \cup { j \in Indices(cs) : \E i \in S : ShareKey(cs[i], cs[j]) }
  IN IF more = S THEN S ELSE LinkedTo(cs, more)

\* the partition of order IDs a cluster list stands for
OrderPartition(cs) == { cs[i].orders : i \in Indices(cs) }

PermutationsOf(cs) ==
  { [i \in Indices(cs) |-> cs[f[i]]] :
      f \in { g \in [Indices(cs) -> Indices(cs)] :
                \A i, j \in Indices(cs) : g[i] = g[j] => i = j } }

\* C1: between calls of update_clusters and merge_orders, every order ID of
\* the list is in exactly one cluster of the list.
C1_OrderInOneCluster ==
  pc = "idle" =>
    \A i, j \in Indices(all_clusters) :
      i # j => all_clusters[i].orders \cap all_clusters[j].orders = {}

\* C2: at every point in time each tracking number is in the trackings set of
\* at most one cluster of the list.
C2_TrackingInOneCluster ==
  \A i, j \in Indices(all_clusters) :
    i # j => all_clusters[i].trackings \cap all_clusters[j].trackings = {}

\* C3: a tracking with an order ID held by a cluster that was in all_clusters
\* when update_clusters started is attached to such a cluster, and no cluster
\* is created for it.
C3_ExistingClusterClaims ==
  [][ ( /\ pc = "update"
        /\ pc' = "update"
        /\ \E i \in 1..n0 : set_of(tracking'.order_ids) \cap all_clusters[i].orders # {} )
      => ( /\ Len(all_clusters') = Len(all_clusters)
           /\ \E i \in 1..n0 :
                /\ set_of(tracking'.order_ids) \cap all_clusters[i].orders # {}
                /\ tracking'.tracking_number \in all_clusters'[i].trackings ) ]_vars

\* C4: in the list merge_orders returns no two distinct clusters have a common
\* email_id, and no two have a common purchase order with the same group string.
C4_NoMergePossible ==
  mpc = "done" =>
    \A i, j \in Indices(clusters) : i # j => ~ShareKey(clusters[i], clusters[j])

\* a call that merged some clusters and returned at least two
C4_Witness ==
  /\ mpc = "done"
  /\ Len(clusters) >= 2
  /\ Len(clusters) < Len(input)
  /\ UnionEmailIds(clusters) # {}
  /\ UnionPurchaseOrders(clusters) # {}

\* C5: merge_orders applied to its own result returns that result: the same
\* number of clusters, every field unchanged.
C5_MergeIdempotent ==
  mpc = "done" => merge_orders(clusters) = {clusters}

\* a result that took more than one reducing pass to reach
C5_Witness ==
  /\ mpc = "done"
  /\ passes >= 3
  /\ Len(clusters) < Len(input)

\* C6: every permutation of the input list gives the same partition of the
\* order IDs into clusters.
C6_PermutationSamePartition ==
  mpc = "done" =>
    \A perm \in PermutationsOf(input) :
      \A r \in merge_orders(perm) : OrderPartition(r) = OrderPartition(clusters)

\* C7: two input clusters linked by shared keys, directly or through a chain
\* of input clusters, have their order IDs in one cluster of the result.
C7_LinkedEndTogether ==
  mpc = "done" =>
    \A i \in Indices(input) : \A j \in LinkedTo(input, {i}) :
      \E k \in Indices(clusters) :
        input[i].orders \cup input[j].orders \subseteq clusters[k].orders

\* C8: every pass leaves the list shorter or of the same length (prev_length
\* is its length before the last pass) and the loop ends on the first pass
\* that leaves the length unchanged; so the call returns: while it has not,
\* the next pass has a result, and the passes are no more than the input
\* has clusters (one for the empty list).
C8_PassesShrinkUntilFixed ==
  /\ passes = 0 => mpc = "loop"
  /\ passes > 0 =>
       /\ Len(clusters) <= prev_length
       /\ (mpc = "done") <=> (Len(clusters) = prev_length)
  /\ mpc = "loop" => run_merge_iteration(clusters) # {}
  /\ passes <= IF Len(input) = 0 THEN 1 ELSE Len(input)

\* a call that went through a reducing pass and then ended
C8_Witness ==
  /\ mpc = "done"
  /\ passes >= 2
  /\ Len(clusters) < Len(input)
  /\ prev_length = Len(clusters)

\* C9: the clusters of merge_orders hold what the input clusters held: the
\* same orders, trackings, purchase orders and email IDs overall, and the
\* same totals of expected_cost, tracked_cost and adjustment.
C9_ContentPreserved ==
  /\ UnionOrders(clusters) = UnionOrders(input)
  /\ UnionTrackings(clusters) = UnionTrackings(input)
  /\ UnionPurchaseOrders(clusters) = UnionPurchaseOrders(input)
  /\ UnionEmailIds(clusters) = UnionEmailIds(input)
  /\ TotalExpectedCost(clusters) = TotalExpectedCost(input)
  /\ TotalTrackedCost(clusters) = TotalTrackedCost(input)
  /\ TotalAdjustment(clusters) = TotalAdjustment(input)

\* a returned list in which one cluster absorbed two others
C9_Witness ==
  /\ mpc = "done"
  /\ Len(input) = 3
  /\ Len(clusters) = 1
  /\ TotalTrackedCost(input) > 0

\* C10: a cluster that received a merge_with call (it holds the orders of more
\* than one input cluster) has manual_override false, during the call and in
\* the list it returns.
C10_MergeClearsOverride ==
  \A k \in Indices(clusters) :
    Cardinality(clusters[k].orders) > 1 => ~clusters[k].manual_override

\* a returned cluster whose representative had the flag set and absorbed a
\* cluster without it
C10_Witness ==
  /\ mpc = "done"
  /\ \E k \in Indices(clusters) : \E i, j \in Indices(input) :
       /\ i < j
       /\ input[i].orders \cup input[j].orders \subseteq clusters[k].orders
       /\ input[i].manual_override
       /\ ~input[j].manual_override
       /\ \A h \in Indices(input) : input[h].orders \subseteq clusters[k].orders => h >= i

\* the clusters of cs that hold an order ID of the tracking t
Holders(cs, t) == { i \in Indices(cs) : set_of(t.order_ids) \cap cs[i].orders # {} }

C12_NoSharedContainer ==
  \A a, b \in DOMAIN objects :
    a # b => \A f, g \in ContainerFields : objects[a][f] # objects[b][g]

\* what a row adds to the cost of its key: its cost, or 0 when it has no cost
\* text or is flagged void or unverified
RowCost(row) ==
  IF row.total = <<>> \/ row.void \/ ~row.verified THEN 0 ELSE float(row.total)

\* the sum of RowCost over the first n rows that name the tracking number t
RECURSIVE SumRowCosts(_, _, _)
SumRowCosts(rows, n, t) ==
  IF n = 0 THEN 0
  ELSE SumRowCosts(rows, n - 1, t) + (IF rows[n].tracking = t THEN RowCost(rows[n]) ELSE 0)

\* C13: in every cost adapter the cost recorded for a tracking key is the sum
\* of the costs of the rows or responses taken so far that refer to the key,
\* never only the last one.
C13_CostsSummed ==
  cpc \in {"rows", "returned"} =>
    \A key \in DOMAIN tracking_infos :
      tracking_infos[key].cost = SumRowCosts(csv_rows, row_index, key[1])

\* the rows taken so far that are flagged void or unverified
FlaggedRowsTaken ==
  { i \in 1..row_index : csv_rows[i].void \/ ~csv_rows[i].verified }

\* C14 (as claimed): a row flagged void or unverified (portal CSV, embdeals
\* CSV) adds 0 to the cost of its key, and the key is recorded in the ledger
\* all the same, also when every row of the key is flagged.
C14_FlaggedRowRecorded ==
  ( adapter_for(fetch_group) \in {"melul", "embdeals"} /\ cpc \in {"rows", "returned"} )
  => \A i \in FlaggedRowsTaken :
       /\ <<csv_rows[i].tracking>> \in DOMAIN tracking_infos
       /\ tracking_infos[<<csv_rows[i].tracking>>].cost
            = SumRowCosts(csv_rows, row_index, csv_rows[i].tracking)

\* C14 (amended): a flagged row adds 0 to the cost of its key, and the key is
\* recorded all the same, unless the row is a portal CSV row whose TOTAL is
\* zero: the portal adapter records no row with a zero TOTAL, flagged or not.
C14_FlaggedRowRecordedUnlessZero ==
  ( adapter_for(fetch_group) \in {"melul", "embdeals"} /\ cpc \in {"rows", "returned"} )
  => \A i \in FlaggedRowsTaken :
       ( adapter_for(fetch_group) = "melul" => float(csv_rows[i].total) # 0 )
       => /\ <<csv_rows[i].tracking>> \in DOMAIN tracking_infos
          /\ tracking_infos[<<csv_rows[i].tracking>>].cost
               = SumRowCosts(csv_rows, row_index, csv_rows[i].tracking)

\* the portal adapter has returned a ledger whose only rows are two flagged
\* rows of one key with a non-zero TOTAL: the key is recorded with cost 0
C14_Witness ==
  /\ adapter_for(fetch_group) = "melul"
  /\ cpc = "returned"
  /\ Len(csv_rows) = MaxRows
  /\ FlaggedRowsTaken = 1..MaxRows
  /\ \A i \in 1..MaxRows : csv_rows[i].tracking = "T1" /\ float(csv_rows[i].total) # 0
  /\ tracking_infos[<<"T1">>].cost = 0

\* C15: get_new_tracking_pos_costs_maps is total: for a group that no branch
\* of the dispatch names and that has no local CSV folder, the call does not
\* raise, and it returns two empty maps.
C15_UnknownGroupEmptyMaps ==
  adapter_for(fetch_group) = "none" =>
    /\ cpc # "raised"
    /\ cpc = "returned" => tracking_infos = <<>> /\ po_to_cost_map = <<>>

\* the call for the unknown group has returned
C15_Witness ==
  /\ fetch_group = "nosuchgroup"
  /\ fetch_group \notin recon_csv_folders
  /\ cpc = "returned"
  /\ DOMAIN tracking_infos = {}
  /\ DOMAIN po_to_cost_map = {}

\* the archival sub-groups of the configuration
ArchiveGroups == UNION { { archives_of(g)[i] : i \in DOMAIN archives_of(g) } : g \in FetchGroups }

\* C16: across any sequence of cost fetches, retries after a failure
\* included, an archival sub-group is fetched from the portal only while the
\* archive has no entry for it; an entry put into the archive is never put
\* again nor changed; and the ledger a fetch returns holds, for each
\* sub-group, every key the archive has for it, with an entry of the archive
\* (that sub-group's, or another's that has the key too).
C16_ArchiveFetchedOnce ==
  [][ /\ ( event'.source \in ArchiveGroups /\ event'.outcome # "none" )
           => ~has_archive(archive, event'.source)
      /\ \A g \in DOMAIN archive : g \in DOMAIN archive' /\ archive'[g] = archive[g]
      /\ ( spc # "returned" /\ spc' = "returned" /\ site_op = "fetch" )
           => \A i \in DOMAIN archives_of(site_group) :
                LET g == archives_of(site_group)[i] IN
                  /\ has_archive(archive, g)
                  /\ \A key \in DOMAIN get_archive(archive, g).trackings_info :
                       /\ key \in DOMAIN site_result'.trackings_info
                       /\ \E j \in DOMAIN archives_of(site_group) :
                            LET h == archives_of(site_group)[j] IN
                              /\ key \in DOMAIN get_archive(archive, h).trackings_info
                              /\ site_result'.trackings_info[key]
                                   = get_archive(archive, h).trackings_info[key] ]_vars

\* a fetch of the portal group has returned after a failed round, with both
\* sub-groups in the archive and the archived entry in the returned ledger
C16_Witness ==
  /\ site_op = "fetch"
  /\ site_group \in melul_portal_groups
  /\ spc = "returned"
  /\ attempt > 1
  /\ last_exc.kind = "transient"
  /\ DOMAIN archive = ArchiveGroups
  /\ site_result.trackings_info[<<"T2">>] = archive["archive2"].trackings_info[<<"T2">>]

\* C17: a retrying executor enters at most N rounds (5 for a cost fetch, 10
\* for _upload_to_group); it returns at the first round that succeeds, every
\* round before it having failed; and when all N rounds fail it raises one
\* "Exceeded retry limit" failure that carries the error of the N-th round.
C17_BoundedRetry ==
  /\ site_op = "fetch" => attempt <= FETCH_ATTEMPTS
  /\ site_op = "upload" => attempt <= MAX_UPLOAD_ATTEMPTS
  /\ spc = "returned" =>
       /\ site_result.kind = "ok"
       /\ attempt >= 1
       /\ last_exc.attempt = attempt - 1
  /\ spc = "raised" =>
       /\ attempt = IF site_op = "fetch" THEN FETCH_ATTEMPTS ELSE MAX_UPLOAD_ATTEMPTS
       /\ site_result = Raised("Exceeded retry limit", last_exc)
       /\ last_exc.attempt = attempt
       /\ last_exc.kind # "none"
  /\ spc \in {"try", "archives"} => site_result.kind = "none"

\* an upload to a known group has failed ten times and the call has raised
C17_Witness ==
  /\ site_op = "upload"
  /\ upload_known(site_group)
  /\ spc = "raised"
  /\ attempt = MAX_UPLOAD_ATTEMPTS
  /\ site_result.message = "Exceeded retry limit"
  /\ site_result.cause = [kind |-> "transient", attempt |-> MAX_UPLOAD_ATTEMPTS]

\* C18: when a round of a cost fetch meets upstream data in a format the code
\* does not know, the call ends there with that error: the round is not
\* followed by another one, and the error is not dropped.
C18_FormatErrorRaisedAtOnce ==
  [][ ( site_op = "fetch" /\ event'.outcome = "format" )
      => /\ spc' = "raised"
         /\ site_result'.kind = "error"
         /\ site_result'.cause.kind = "format" ]_vars

\* C19: _upload_to_group enters exactly one round for a group its dispatch
\* does not know, and ends with a configuration error naming the group
\* instead of retrying.
C19_UnknownGroupOneAttempt ==
  ( site_op = "upload" /\ ~upload_known(site_group) ) =>
    /\ attempt <= 1
    /\ spc = "raised" => attempt = 1 /\ site_result.message # "Exceeded retry limit"

\* C20: in _get_usa_tracking_pos_prices the failure of one tracking's lookup
\* ends only that task: the fetch does not raise, it returns when every task
\* has ended, and the ledger holds exactly the keys of the tracking numbers
\* for which a lookup succeeded.
C20_LookupFailureContained ==
  /\ cpc # "raised"
  /\ cpc \in {"gather", "returned"} =>
       DOMAIN tracking_infos
         = { <<csv_rows[i].tracking>> : i \in { j \in DOMAIN task_pc : task_pc[j] = "done" } }
  /\ cpc = "returned" =>
       \A i \in DOMAIN csv_rows : task_pc[i] \in {"done", "failed"}

\* the fetch has returned with one lookup failed and another, of a different
\* tracking number, succeeded: the ledger holds the key of the second only
C20_Witness ==
  /\ cpc = "returned"
  /\ \E i, j \in DOMAIN task_pc :
       /\ task_pc[i] = "failed"
       /\ task_pc[j] = "done"
       /\ csv_rows[i].total # <<>>
       /\ csv_rows[i].tracking # csv_rows[j].tracking
       /\ DOMAIN tracking_infos = { <<csv_rows[j].tracking>> }


\* C21: at most one browser session is open at any time, and none is open
\* when a round of the retry loop begins or the call has ended: every driver
\* a round created is quit before the next round creates another.
C21_OneDriverAtATime ==
  /\ drivers <= 1
  /\ (spc \in {"try", "returned", "raised"} => drivers = 0)


\* C22: a call of fill_expected_costs leaves every cluster with expected_cost
\* equal to the sum of the lookup over its orders (unknown orders count 0),
\* whatever the value was before, and changes nothing else: the list has the
\* same clusters with all their other fields, and the lookup table is as before.
C22_ExpectedCostFilled ==
  [][ pc' = "filled" =>
        /\ Len(all_clusters') = Len(all_clusters)
        /\ expected_costs' = expected_costs
        /\ \A i \in 1..Len(all_clusters) :
             /\ all_clusters'[i].expected_cost =
                  SumSeq([ k \in 1..Len(OrderIds) |->
                             IF OrderIds[k] \in all_clusters[i].orders /\
                                OrderIds[k] \in DOMAIN expected_costs
                             THEN expected_costs[OrderIds[k]] ELSE 0 ])
             /\ [all_clusters'[i] EXCEPT !.expected_cost = 0] =
                  [all_clusters[i] EXCEPT !.expected_cost = 0] ]_vars

\* a filled list with a cluster of a known and an unknown order, whose total
\* is the known order's cost and not what the stored rows added up to
C22_Witness ==
  /\ pc = "filled"
  /\ expected_costs = [o \in {"O1"} |-> 5]
  /\ \E i \in 1..Len(all_clusters) :
       /\ all_clusters[i].orders = {"O1", "O2"}
       /\ all_clusters[i].expected_cost = 5


NumericColumns ==
  [ expected_cost |-> "Amount Billed", tracked_cost |-> "Amount Reimbursed",
    adjustment |-> "Manual Cost Adjustment" ]
SetColumns ==
  [ orders |-> "Orders", trackings |-> "Trackings", purchase_orders |-> "POs",
    non_reimbursed_trackings |-> "Non-Reimbursed Trackings" ]

\* C23: from_row returns a Cluster and does not raise, whatever columns the
\* header lacks and whatever cells are blank; in the cluster a numeric field
\* whose column is absent or whose cell is blank is 0, manual_override is
\* false when its column is absent, and a set field of an absent column is
\* the empty set.
C23_FromRowLossTolerant ==
  row_cluster.kind # "none" =>
    /\ row_cluster.kind = "ok"
    /\ \A f \in DOMAIN NumericColumns :
         (NumericColumns[f] \notin sheet.header \/ sheet.row[NumericColumns[f]] = Str(<<>>))
           => row_cluster.cluster[f] = 0
    /\ "Manual Override" \notin sheet.header => row_cluster.cluster.manual_override = FALSE
    /\ \A f \in DOMAIN SetColumns :
         SetColumns[f] \notin sheet.header => row_cluster.cluster[f] = {}

\* a row under a header without the Orders column, its Amount Billed cell
\* blank and its Amount Reimbursed cell filled, turned into a cluster
C23_Witness ==
  /\ row_cluster.kind = "ok"
  /\ sheet.kind = "sheet"
  /\ "Orders" \notin sheet.header
  /\ "Amount Billed" \in sheet.header
  /\ sheet.row["Amount Billed"] = Str(<<>>)
  /\ row_cluster.cluster.expected_cost = 0
  /\ row_cluster.cluster.tracked_cost = 15

\* C24: a cluster exported with to_row and read back with from_row has the
\* orders, trackings, purchase_orders and non_reimbursed_trackings it had,
\* an empty set staying empty.
C24_RoundTripSets ==
  (sheet.kind = "export" /\ row_cluster.kind = "ok") =>
    \A f \in DOMAIN SetColumns : row_cluster.cluster[f] = sheet.cluster[f]


\* C25: once merge_orders has run (initial cluster count - 1) passes its list
\* is the fixed point: no two of its clusters share an email_id or a
\* (PO, group) key, and a further pass returns the list as it is.
C25_FixedPointWithinCountMinusOne ==
  passes >= Len(input) - 1 =>
    /\ \A i, j \in Indices(clusters) : i # j => ~ShareKey(clusters[i], clusters[j])
    /\ run_merge_iteration(clusters) = {clusters}

\* three clusters that took two passes, each merging one cluster away
C25_Witness ==
  /\ Len(input) = 3
  /\ passes = 2
  /\ prev_length = 2
  /\ Len(clusters) = 1

\* C26: one pass need not reach the fixed point.  The list a pass returned
\* can hold two clusters that share an email_id or a (PO, group) key, and
\* whenever it does, the next pass merges: it returns a shorter list.
C26_NextPassMergesLeftovers ==
  [][ (\E i, j \in Indices(clusters) : i # j /\ ShareKey(clusters[i], clusters[j]))
        => Len(clusters') < Len(clusters) ]_vars

\* the list returned by the first pass, shorter than the input, with two
\* clusters that share a key
C26_Witness ==
  /\ passes = 1
  /\ Len(clusters) < Len(input)
  /\ \E i, j \in Indices(clusters) : i # j /\ ShareKey(clusters[i], clusters[j])


FirstMember(c) ==
  CHOOSE i \in Indices(input) :
    /\ OrderIds[i] \in c.orders
    /\ \A j \in Indices(input) : OrderIds[j] \in c.orders => i <= j

IsPrefix(a, b) == Len(a) <= Len(b) /\ SubSeq(b, 1, Len(a)) = a

SharePo(a, b) == a.group = b.group /\ a.purchase_orders \cap b.purchase_orders # {}
ShareEmail(a, b) == a.email_ids \cap b.email_ids # {}

\* C28: the list a pass returns is made of the representatives, in input
\* order: each grew from the earliest input cluster it holds (its group label
\* begins with that cluster's label), they stand in the order of those
\* clusters, and the first is the first input cluster.  In the first pass a
\* cluster that shares a (PO, group) key with one earlier representative and
\* an email_id with another is folded into one it shares the purchase order
\* with.
C28_FoldIntoEarlierPoFirst ==
  /\ Len(input) > 0 => (Len(clusters) > 0 /\ OrderIds[1] \in clusters[1].orders)
  /\ \A k \in Indices(clusters) :
       IsPrefix(input[FirstMember(clusters[k])].group, clusters[k].group)
  /\ \A k1, k2 \in Indices(clusters) :
       k1 < k2 => FirstMember(clusters[k1]) < FirstMember(clusters[k2])
  /\ passes = 1 =>
       \A j \in Indices(input) :
         ( /\ \A i1, i2 \in 1..(j - 1) : i1 # i2 => ~ShareKey(input[i1], input[i2])
           /\ \E i \in 1..(j - 1) : SharePo(input[i], input[j])
           /\ \E i \in 1..(j - 1) : ShareEmail(input[i], input[j]) /\ ~SharePo(input[i], input[j]) )
         => \E i \in 1..(j - 1), k \in Indices(clusters) :
              /\ SharePo(input[i], input[j])
              /\ {OrderIds[i], OrderIds[j]} \subseteq clusters[k].orders

\* after the first pass: the third cluster, which shared its purchase order
\* with the first and its email with the second, is in the first
C28_Witness ==
  /\ passes = 1
  /\ Len(input) = 3
  /\ ~ShareKey(input[1], input[2])
  /\ SharePo(input[1], input[3])
  /\ ShareEmail(input[2], input[3])
  /\ Len(clusters) = 2
  /\ clusters[1].orders = {OrderIds[1], OrderIds[3]}


\* C29: when the maps of an archive are merged into the maps of the call, the
\* result has the keys of both; a key of the archive has the archive's entry
\* (it replaces the entry the live group or an earlier archive gave; the
\* costs are not added), and every other key keeps the entry it had.
C29_ArchiveEntryReplaces ==
  [][ (spc = "archives" /\ archive_index' = archive_index + 1) =>
        LET merged == archive[archives_of(site_group)[archive_index]]
        IN /\ DOMAIN po_cost' = DOMAIN po_cost \cup DOMAIN merged.po_cost
           /\ \A p \in DOMAIN po_cost' :
                po_cost'[p] = IF p \in DOMAIN merged.po_cost THEN merged.po_cost[p]
                              ELSE po_cost[p]
           /\ DOMAIN trackings_info' = DOMAIN trackings_info \cup DOMAIN merged.trackings_info
           /\ \A t \in DOMAIN trackings_info' :
                trackings_info'[t] = IF t \in DOMAIN merged.trackings_info
                                     THEN merged.trackings_info[t]
                                     ELSE trackings_info[t] ]_vars

\* a returned fetch: T1, reported by the live group (5), archive1 (5) and
\* archive2 (3), has archive2's entry; T3, live only, and T2, archive2 only,
\* are there
C29_Witness ==
  /\ spc = "returned"
  /\ site_op = "fetch"
  /\ site_group \in melul_portal_groups
  /\ DOMAIN archive = ArchiveGroups
  /\ archive["archive1"].trackings_info[<<"T1">>].cost = 5
  /\ site_result.trackings_info[<<"T1">>] = [group |-> "archive2", cost |-> 3]
  /\ site_result.trackings_info[<<"T3">>] = [group |-> "mysbuyinggroup", cost |-> 5]
  /\ site_result.trackings_info[<<"T2">>] = [group |-> "archive2", cost |-> 3]
  /\ site_result.po_cost = ("P1" :> 3 @@ "P2" :> 3 @@ "P3" :> 5)


\* a is not below b in Python's string order
StrAtLeast(a, b) == ~str_less(a, b)

\* the tracking record with a given tracking number
TrackingOf(n) == CHOOSE r \in TrackingRest : r.tracking_number = n

\* C30: no step of update_clusters or merge_orders lowers the last_ship_date
\* or last_delivery_date of a cluster (after a merge: of the cluster that
\* holds its orders); inside update_clusters every cluster the call built has
\* dates at least those of each tracking attached to it, and the cluster the
\* last tracking went to has that tracking's to_email.
C30_DatesNeverDecrease ==
  [][ /\ \A i \in Indices(all_clusters) :
           \E k \in Indices(all_clusters') :
             /\ all_clusters[i].orders \subseteq all_clusters'[k].orders
             /\ StrAtLeast(all_clusters'[k].last_ship_date, all_clusters[i].last_ship_date)
             /\ StrAtLeast(all_clusters'[k].last_delivery_date,
                           all_clusters[i].last_delivery_date)
      /\ pc' = "update" =>
           /\ \A i \in (n0' + 1)..Len(all_clusters') :
                \A n \in all_clusters'[i].trackings :
                  /\ StrAtLeast(all_clusters'[i].last_ship_date, TrackingOf(n).ship_date)
                  /\ StrAtLeast(all_clusters'[i].last_delivery_date,
                                TrackingOf(n).delivery_date)
           /\ tracking' # NoTracking =>
                all_clusters'[order_to_cluster'[tracking'.order_ids[1]]].to_email
                  = tracking'.to_email ]_vars

\* a cluster built by the call with both trackings attached, T1 last: its
\* dates are the later ones (T2's ship date, T1's delivery date) and its
\* to_email is T1's
C30_Witness ==
  /\ pc = "update"
  /\ tracking # NoTracking
  /\ tracking.tracking_number = "T1"
  /\ \E i \in (n0 + 1)..Len(all_clusters) :
       /\ all_clusters[i].trackings = {"T1", "T2"}
       /\ all_clusters[i].last_ship_date = <<2>>
       /\ all_clusters[i].last_delivery_date = <<2>>
       /\ all_clusters[i].to_email = "a@x"
       /\ order_to_cluster[tracking.order_ids[1]] = i


\* the membership sets of a cluster
MembershipSets(c) ==
  [ orders |-> c.orders, trackings |-> c.trackings, purchase_orders |-> c.purchase_orders,
    email_ids |-> c.email_ids ]

\* C31: on the membership sets merging is commutative and associative:
\* a.merge_with(b) and b.merge_with(a) leave the same orders, trackings,
\* purchase_orders and email_ids, and folding b then c into a leaves the same
\* sets as folding c into b and then b into a; the three clusters folded into
\* one hold the sets of all three inputs, whatever the order of the folds.
C31_MembershipUnionAlgebra ==
  /\ \A i, j \in Indices(clusters) :
       MembershipSets(merge_with(clusters[i], clusters[j]))
         = MembershipSets(merge_with(clusters[j], clusters[i]))
  /\ \A i, j, k \in Indices(input) :
       MembershipSets(merge_with(merge_with(input[i], input[j]), input[k]))
         = MembershipSets(merge_with(input[i], merge_with(input[j], input[k])))
  /\ Len(clusters) = 1 =>
       MembershipSets(clusters[1]) =
         [ orders |-> UnionOrders(input), trackings |-> UnionTrackings(input),
           purchase_orders |-> UnionPurchaseOrders(input),
           email_ids |-> UnionEmailIds(input) ]

\* the three clusters folded into one, from inputs with different purchase
\* orders and groups: the two orders of a.merge_with(b) differ in the group
\* label and agree on the sets
C31_Witness ==
  /\ Len(clusters) = 1
  /\ input[1].purchase_orders # input[2].purchase_orders
  /\ input[2].email_ids # input[3].email_ids
  /\ merge_with(input[1], input[2]).group # merge_with(input[2], input[1]).group
  /\ clusters[1].orders = {"O1", "O2", "O3"}


\* the tasks whose lookup has succeeded
DoneTasks == { i \in DOMAIN task_pc : task_pc[i] = "done" }

\* every tracking number has one response: entries with the same tracking
\* number are answered with the same price
OneResponsePerTracking ==
  \A i, j \in DOMAIN csv_rows :
    csv_rows[i].tracking = csv_rows[j].tracking => csv_rows[i].total = csv_rows[j].total

\* C32: the ledger of the fan-out starts empty in the invocation and is, at
\* every moment, determined by which lookups have succeeded and what they
\* were answered, not by the order in which they completed: it holds, for
\* each succeeded lookup, the key of its tracking number with the price of
\* its response, and nothing else; it is returned when every task has ended.
C32_LedgerIndependentOfOrder ==
  /\ cpc = "entries" => tracking_infos = <<>>
  /\ (cpc \in {"gather", "returned"} /\ OneResponsePerTracking) =>
       tracking_infos =
         [ key \in { <<csv_rows[i].tracking>> : i \in DoneTasks } |->
             LET i == CHOOSE k \in DoneTasks : csv_rows[k].tracking = key[1]
             IN [group |-> "usa", cost |-> float(csv_rows[i].total), date |-> ""] ]
  /\ cpc = "returned" => \A i \in DOMAIN task_pc : task_pc[i] \in {"done", "failed"}

\* the fetch has returned after two lookups of different tracking numbers and
\* prices succeeded (in either order): the ledger holds both
C32_Witness ==
  /\ cpc = "returned"
  /\ Len(csv_rows) = 2
  /\ DoneTasks = {1, 2}
  /\ csv_rows[1].tracking # csv_rows[2].tracking
  /\ csv_rows[1].total # csv_rows[2].total
  /\ Cardinality(DOMAIN tracking_infos) = 2


\* the cluster holds the tracking whole: its number and every order ID
Covers(c, t) == t.tracking_number \in c.trackings /\ set_of(t.order_ids) \subseteq c.orders

\* C33: every step of update_clusters leaves the tracking it processed in one
\* cluster of the list that holds its number and all of its order IDs, and
\* removes nothing: each cluster of the list stays at its place with the
\* orders and trackings it had; so every tracking processed stays covered,
\* until the call returns and after.
C33_ProcessedTrackingCovered ==
  [][ (pc = "update" \/ pc' = "update") =>
        /\ Len(all_clusters') >= Len(all_clusters)
        /\ \A i \in Indices(all_clusters) :
             /\ all_clusters[i].orders \subseteq all_clusters'[i].orders
             /\ all_clusters[i].trackings \subseteq all_clusters'[i].trackings
        /\ tracking' # NoTracking =>
             \E k \in Indices(all_clusters') : Covers(all_clusters'[k], tracking')
        /\ (tracking # NoTracking /\ \E k \in Indices(all_clusters) :
                                        Covers(all_clusters[k], tracking))
             => \E k \in Indices(all_clusters') : Covers(all_clusters'[k], tracking) ]_vars

\* update_clusters has returned after three trackings; the list holds a
\* cluster built by the call with both tracking numbers and both orders
C33_Witness ==
  /\ pc = "idle"
  /\ steps = 3
  /\ \E k \in Indices(all_clusters) :
       /\ all_clusters[k].trackings = {"T1", "T2"}
       /\ all_clusters[k].orders = {"O1", "O2"}
       /\ all_clusters[k].to_email = "b@x"


DisjointOrders(cs) ==
  \A i, j \in Indices(cs) : i # j => cs[i].orders \cap cs[j].orders = {}
DisjointTrackings(cs) ==
  \A i, j \in Indices(cs) : i # j => cs[i].trackings \cap cs[j].trackings = {}

\* C34: merge_orders keeps disjointness: when the orders sets of the input
\* clusters are pairwise disjoint, so are those of the list after every pass
\* and of the list returned, and the same for the trackings sets.
C34_MergeKeepsDisjoint ==
  /\ DisjointOrders(input) => DisjointOrders(clusters)
  /\ DisjointTrackings(input) => DisjointTrackings(clusters)

\* a returned list of two clusters, one of them merged from the first and
\* the third input cluster, the second input cluster left alone
C34_Witness ==
  /\ mpc = "done"
  /\ Len(input) = 3
  /\ DisjointOrders(input)
  /\ DisjointTrackings(input)
  /\ Len(clusters) = 2
  /\ clusters[1].orders = {"O1", "O3"}
  /\ clusters[1].trackings = {"T1", "T3"}
  /\ clusters[2].orders = {"O2"}

====
